---- MODULE Spec2Model ----
(***************************************************************************)
(* FLIR Boson FSLP command layer (src/unnamed/part_000): raw I2C           *)
(* transport, FSLP framing, the command dispatcher with its one-retry      *)
(* read loop, and the four command packagers that drive it.                *)
(*                                                                         *)
(* The camera and the I2C bus are the environment: every transport read    *)
(* draws what the bus returns from a bounded set of scripts.               *)
(***************************************************************************)
EXTENDS Integers, Sequences, FiniteSets, TLC

(* ------------------------------------------------------------------ *)
(* Program constants                                                  *)
(* ------------------------------------------------------------------ *)
FLIR_MAGIC_TOKEN_0 == 142
FLIR_MAGIC_TOKEN_1 == 161
FLIR_FSLP_MAX_DATA == 256

BOSON_GETCAMERASN == 327682
DVO_SET_MIPI_STATE == 393252
DVOMUX_SETTYPE == 917504
DVOMUX_GETTYPE == 917505

FLIR_MIPI_STATE_OFF == 0
FLIR_MIPI_STATE_ACTIVE == 2

R_SUCCESS == 0
R_SDK_DSPCH_SEQUENCE_MISMATCH == 305
R_SDK_DSPCH_ID_MISMATCH == 306
FLR_COMM_ERROR_WRITING_COMM == 621
FLR_COMM_ERROR_READING_COMM == 622
FLR_CAM_BUSY == 643

EIO == 5
EINVAL == 22
EBUSY == 16
ENODEV == 19
ENOTTY == 25
ENOSPC == 28
ERANGE == 34
EPROTO == 71
EREMOTEIO == 121

R_SDK_PKG_BUFFER_OVERFLOW == 303
R_CAM_PKG_BUFFER_OVERFLOW == 383
R_CAM_API_INVALID_INPUT == 385
FLR_NOT_READY == 514
FLR_RANGE_ERROR == 515
FLR_BAD_ARG_POINTER_ERROR == 517
FLR_DATA_SIZE_ERROR == 518
FLR_COMM_PORT_NOT_OPEN == 613
FLR_COMM_NO_DEV == 620
FLR_COMM_TIMEOUT_ERROR == 621

\* the reads of flir_get_agc_paramaters
AgcReads == 18

\* for (retry = 0; retry < 2; retry++)
RetryLimit == 2

(* ------------------------------------------------------------------ *)
(* Bounds of the model                                                *)
(* ------------------------------------------------------------------ *)
\* packager calls made in one behaviour
MaxCalls == 2

\* calls of the subdevice operations made in one behaviour
MaxOps == 2
MaxCode == 1023

(* ------------------------------------------------------------------ *)
(* 32-bit unsigned values                                             *)
(* A u32 is kept as its two 16-bit halves <<high, low>>, so that the  *)
(* full width 2^32 is represented and wraps exactly as in C.          *)
(* ------------------------------------------------------------------ *)
HALF == 256 * 256

\* the u32 holding the small non-negative number n
U(n) == << n \div HALF, n % HALF >>

\* a plausible slip: the counter saturates instead of wrapping
IncSaturating(v) ==
    IF v[2] = HALF - 1
    THEN (IF v[1] = HALF - 1 THEN v ELSE << v[1] + 1, 0 >>)
    ELSE << v[1], v[2] + 1 >>

\* ++x on a u32: wraps from 0xFFFFFFFF to 0
Inc(v) ==
    IF v[2] = HALF - 1 THEN << (v[1] + 1) % HALF, 0 >> ELSE << v[1], v[2] + 1 >>

\* 0xFFFFFFFF: the status placeholder of a request, the idle pattern of the bus
PENDING == << HALF - 1, HALF - 1 >>

(* ------------------------------------------------------------------ *)
(* Serialisation helpers                                              *)
(* ------------------------------------------------------------------ *)
\* a plausible slip: least significant byte first
UINT32_ToBytes_LE(inVal) ==
    << inVal[2] % 256, inVal[2] \div 256, inVal[1] % 256, inVal[1] \div 256 >>

\* inVal >> 24 & 0xff, >> 16 & 0xff, >> 8 & 0xff, & 0xff to four consecutive bytes
UINT32_ToBytes(inVal) ==
    << inVal[1] \div 256, inVal[1] % 256, inVal[2] \div 256, inVal[2] % 256 >>

\* a plausible slip: the least significant byte is taken first
byteToUINT32_LE(inBuff, off) ==
    << inBuff[off + 4] * 256 + inBuff[off + 3],
       inBuff[off + 2] * 256 + inBuff[off + 1] >>

\* (inBuff[0] << 24) | (inBuff[1] << 16) | (inBuff[2] << 8) | inBuff[3],
\* read at C offset off of the buffer (TLA+ sequences start at 1)
byteToUINT32(inBuff, off) ==
    << inBuff[off + 1] * 256 + inBuff[off + 2],
       inBuff[off + 3] * 256 + inBuff[off + 4] >>

\* memcpy(dst + off, src, Len(src)) as far as dst is kept in the model
Store(dst, off, src) ==
    [i \in 1..Len(dst) |->
        IF i > off /\ i <= off + Len(src) THEN src[i - off] ELSE dst[i]]

Zeros(n) == [i \in 1..n |-> 0]

\* a payload of n bytes, none of them 0
FramePayload(n) == [i \in 1..n |-> 1 + (i % 255)]

(* ------------------------------------------------------------------ *)
(* State                                                              *)
(* ------------------------------------------------------------------ *)
VARIABLES
    command_count,     \* sensor->command_count (u32)
    calls,             \* packager calls made so far in this behaviour
    pc,                \* where the running packager call is
    op,                \* the running packager
    seq_num,           \* dispatcher argument
    fn_id,             \* dispatcher argument
    send_data,         \* dispatcher argument (send_bytes = Len(send_data))
    receive_bytes,     \* *receive_bytes
    response_payload,  \* the first Window bytes of the dispatcher's
                       \* u8 response_payload[FLIR_FSLP_MAX_DATA]
    retry,             \* loop variable of the read loop
    status,            \* the dispatcher's local u32 status
    ret,               \* FLR_RESULT returned by the dispatcher (u32), once done
    receive_data,      \* bytes copied into receive_data (<<>> while nothing is)
    out,               \* values the packager stored through its out-pointers
    args,              \* the u32 arguments the packager was called with
    result,            \* FLR_RESULT returned by the packager (u32), once done
    wire,              \* the transport writes of this dispatch, in order: the
                       \* bytes handed over and whether the transfer succeeded
    frames,            \* what each flir_fslp_read_frame of this dispatch met
    overflow,          \* bytes were stored past the end of command_payload
                       \* or response_payload
    \* the framing layer and the serialisers called on their own
    fpc,               \* which call was made: "start" while none was
    frame_in,          \* payload handed to flir_fslp_send_frame
    frame_ret,         \* int returned by flir_fslp_send_frame
    frame_wire,        \* the transport writes flir_fslp_send_frame made
    frame_buf,         \* payload buffer handed to flir_fslp_read_frame
    frame_read,        \* what flir_fslp_read_frame returned
    hdr_in,            \* (sequence, function id, status) given to UINT32_ToBytes
    hdr_bytes,         \* the 12 bytes written
    hdr_out,           \* the three values byteToUINT32 read back
    \* the V4L2 core
    lock,              \* sensor->lock: "free" or the thread that holds it
    sensor,            \* powered, streaming, mipi_state, current_format,
                       \* current_framesize and fmt of struct flir_boson_dev
    th,                \* each thread: where it is, the operation it runs and
                       \* its argument, the local ret, the packager call it
                       \* waits for, what the last one returned, and what this
                       \* call of the operation has met so far (first command,
                       \* first failure, MIPI states set, the device state
                       \* when the lock was taken)
    configured,        \* what the camera was told with success
    ops,               \* calls of subdevice operations made so far
    conv,              \* the last conversion of a result code to an errno
    cd,                \* the running call of CLIENT_dispatcher: its arguments,
                       \* the frame I2C_readFrame delivered, *receiveBytes, the
                       \* bytes copied to receiveData, the result
    lg,                \* the legacy core: sensor->lock, the flags, and each
                       \* thread's place in flir_boson_s_power,
                       \* flir_boson_s_stream or flir_boson_ioctl
    vv                 \* the VVCAM core: sensor->lock, the flags, mipi_state,
                       \* the MIPI state the camera acknowledged last, and
                       \* each thread's place in its call

\* the dispatcher, its packagers and the device
dispVars == << command_count, calls, pc, op, seq_num, fn_id, send_data,
               receive_bytes, response_payload, retry, status, ret, receive_data,
               out, args, result, wire, frames, overflow >>

\* the framing layer on its own
frameVars == << fpc, frame_in, frame_ret, frame_wire, frame_buf, frame_read,
                hdr_in, hdr_bytes, hdr_out >>

\* the V4L2 core
coreVars == << lock, sensor, th, configured, ops >>

\* what lies outside the three layers above
extVars == << conv, cd, lg, vv >>

vars == << dispVars, frameVars, coreVars, extVars >>

(* ------------------------------------------------------------------ *)
(* The camera and the bus                                             *)
(* ------------------------------------------------------------------ *)
\* The dispatcher reads response_payload[0 .. 12 + *receive_bytes - 1] at most,
\* and no packager asks for more than 8 data bytes: the model keeps that part
\* of the 256-byte array.  Where a read ends is still decided against the
\* array's real size, FLIR_FSLP_MAX_DATA.
Window == 12 + 8

\* the sequence number of the command before seq: what a stale response echoes
Stale(seq) ==
    IF seq[2] = 0 THEN << (seq[1] + HALF - 1) % HALF, HALF - 1 >>
    ELSE << seq[1], seq[2] - 1 >>

\* a function id other than fn
OtherFn(fn) == IF fn = U(DVO_SET_MIPI_STATE) THEN U(BOSON_GETCAMERASN)
               ELSE U(DVO_SET_MIPI_STATE)

\* first data words a camera response may carry
DataWords == { << 258, 772 >>, << 43707, 52445 >> }

\* the second data word that goes with a first one
Second(d) == << d[2], d[1] >>

\* payload lengths a response frame may declare to a caller that expects
\* rbytes data bytes: nothing, a part of the header, the header alone, a part
\* of the data, all of it, and more than the dispatcher's buffer holds
Lens(rbytes) ==
    { 0, 4, 8, 12, 12 + rbytes, FLIR_FSLP_MAX_DATA + 1 }
      \cup (IF rbytes > 4 THEN { 16 } ELSE { })

\* most significant byte first, as the camera puts a u32 on the wire
CamBE(v) == << v[1] \div 256, v[1] % 256, v[2] \div 256, v[2] % 256 >>

\* the first bytes (Window at most) of the t.len bytes of response payload
\* that the camera sends for script t
CamPayload(t) ==
    LET full == CamBE(t.seq) \o CamBE(t.fn) \o CamBE(t.st)
                  \o CamBE(t.data) \o CamBE(Second(t.data))
    IN SubSeq(full, 1, IF t.len < Window THEN t.len ELSE Window)

\* What the bus does during one flir_fslp_read_frame: whether each of the four
\* i2c reads succeeds (r0..r3), the two header bytes (h0, h1), the declared
\* length and the payload content.  Fields the code never gets to are fixed.
Script(r0, h0, r1, h1, r2, len, r3, seq, fn, st, data) ==
    [r0 |-> r0, h0 |-> h0, r1 |-> r1, h1 |-> h1, r2 |-> r2, len |-> len,
     r3 |-> r3, seq |-> seq, fn |-> fn, st |-> st, data |-> data]

\* the first header read: it succeeds and brings the magic token, or
\* another byte, or it fails
GoodFirst == << TRUE, FLIR_MAGIC_TOKEN_0 >>
BadFirst == { << FALSE, 0 >>, << TRUE, 0 >> }

ReadScripts(seq, fn, rbytes) ==
    LET d0 == << 258, 772 >>
        S(b, r1, h1, r2, len, r3, sq, f, st, d) ==
            Script(b[1], b[2], r1, h1, r2, len, r3, sq, f, st, d)
        \* a payload of len bytes arrives
        Arrives(b, len) ==
            { S(b, TRUE, FLIR_MAGIC_TOKEN_1, TRUE, len, TRUE, sq, f, st, d) :
                 sq \in { seq, Stale(seq) },
                 f \in (IF len >= 8 THEN { fn, OtherFn(fn) } ELSE { fn }),
                 st \in (IF len >= 12 THEN { U(R_SUCCESS), U(FLR_CAM_BUSY) }
                         ELSE { U(R_SUCCESS) }),
                 d \in (IF len >= 16 /\ len <= Window THEN DataWords ELSE { d0 }) }
        \* the header reads go wrong, or no payload is read
        NoPayload(b) ==
            { \* second header read fails
              S(b, FALSE, 0, FALSE, 0, FALSE, seq, fn, U(0), d0),
              \* second header byte is not the magic token
              S(b, TRUE, 0, FALSE, 0, FALSE, seq, fn, U(0), d0),
              \* length read fails
              S(b, TRUE, FLIR_MAGIC_TOKEN_1, FALSE, 0, FALSE, seq, fn, U(0), d0),
              \* declared length 0
              S(b, TRUE, FLIR_MAGIC_TOKEN_1, TRUE, 0, FALSE, seq, fn, U(0), d0),
              \* payload read fails
              S(b, TRUE, FLIR_MAGIC_TOKEN_1, TRUE, 12, FALSE, seq, fn, U(0), d0) }
    IN  NoPayload(GoodFirst)
        \cup UNION { Arrives(GoodFirst, len) : len \in Lens(rbytes) \ {0} }
        \* a first header read gone wrong, before a failing second read, a bad
        \* second byte, and a complete response
        \cup UNION { { S(b, FALSE, 0, FALSE, 0, FALSE, seq, fn, U(0), d0),
                       S(b, TRUE, 0, FALSE, 0, FALSE, seq, fn, U(0), d0),
                       S(b, TRUE, FLIR_MAGIC_TOKEN_1, TRUE, 12 + rbytes, TRUE,
                         seq, fn, U(R_SUCCESS), d0) } : b \in BadFirst }

\* what the stack slot of response_payload may hold when the dispatcher is
\* entered: the array is not initialised
StackGarbage(seq, fn) ==
    { Zeros(Window),
      Store(Zeros(Window), 0,
            CamBE(seq) \o CamBE(fn) \o CamBE(U(R_SUCCESS)) \o << 222, 173, 190, 239 >>) }

(* ------------------------------------------------------------------ *)
(* Layer 0: raw I2C transport                                         *)
(* ------------------------------------------------------------------ *)
\* return ret == 1 ? 0 : -EIO
flir_boson_i2c_read(ok) == IF ok THEN 0 ELSE -EIO

\* a plausible slip: the result of i2c_transfer is dropped
flir_boson_i2c_write_Unchecked(ok) == 0

\* return ret == 1 ? 0 : -EIO
flir_boson_i2c_write(ok) == IF ok THEN 0 ELSE -EIO

(* ------------------------------------------------------------------ *)
(* Layer 1: FSLP framing                                              *)
(* ------------------------------------------------------------------ *)
\* a plausible slip: the length goes out low byte first
FslpFrame_LenLE(payload) ==
    << FLIR_MAGIC_TOKEN_0, FLIR_MAGIC_TOKEN_1,
       Len(payload) % 256, (Len(payload) \div 256) % 256 >> \o payload

\* The frame flir_fslp_send_frame builds for a payload: magic, big-endian u16
\* length, payload.
FslpFrame(payload) ==
    << FLIR_MAGIC_TOKEN_0, FLIR_MAGIC_TOKEN_1,
       (Len(payload) \div 256) % 256, Len(payload) % 256 >> \o payload

\* a plausible slip: the frame is handed to the transport twice
flir_fslp_send_frame_Twice(payload, ok) ==
    [ret |-> flir_boson_i2c_write(ok),
     written |-> << [bytes |-> FslpFrame(payload), ok |-> ok],
                    [bytes |-> FslpFrame(payload), ok |-> ok] >>]

\* a plausible slip: a payload of exactly FLIR_FSLP_MAX_DATA bytes is refused
flir_fslp_send_frame_OffByOne(payload, ok) ==
    IF Len(payload) >= FLIR_FSLP_MAX_DATA
    THEN [ret |-> -EINVAL, written |-> << >>]
    ELSE [ret |-> flir_boson_i2c_write(ok),
          written |-> << [bytes |-> FslpFrame(payload), ok |-> ok] >>]

\* flir_fslp_send_frame: [ret, written]; written is the transport writes made
\* (none when the payload is too large), ok is whether the transfer succeeds
flir_fslp_send_frame(payload, ok) ==
    IF Len(payload) > FLIR_FSLP_MAX_DATA
    THEN [ret |-> -EINVAL, written |-> << >>]
    ELSE [ret |-> flir_boson_i2c_write(ok),
          written |-> << [bytes |-> FslpFrame(payload), ok |-> ok] >>]

\* a plausible slip: the payload read takes the length the caller expects
PayloadReadSize_Expected(payload_len, expected_len) == expected_len

\* flir_boson_i2c_read(sensor, payload, payload_len): the size of the payload
\* read is the declared length, whatever the caller expects
PayloadReadSize(payload_len, expected_len) == payload_len

\* flir_fslp_read_frame against bus script t, the bus delivering the payload
\* bytes `bytes` (as far as the model keeps them), reading into buffer payload:
\* [ret, payload, stored, past, warned]: the return value, the buffer
\* afterwards, the number of payload bytes the transport was asked to store,
\* whether that ran past the end of a FLIR_FSLP_MAX_DATA-byte buffer, and
\* whether the length mismatch was logged.
flir_fslp_read_frame(t, bytes, payload, expected_len) ==
    LET ret0 == flir_boson_i2c_read(t.r0)      \* overwritten by the next read
        ret1 == flir_boson_i2c_read(t.r1)
        h2 == (t.len \div 256) % 256
        h3 == t.len % 256
        payload_len == h2 * 256 + h3
        size == PayloadReadSize(payload_len, expected_len)
        nothing == [ret |-> ret1, payload |-> payload, stored |-> 0,
                    past |-> FALSE, warned |-> FALSE]
    IN  IF ret1 # 0 \/ t.h1 # FLIR_MAGIC_TOKEN_1 THEN nothing
        ELSE IF flir_boson_i2c_read(t.r2) # 0
             THEN [nothing EXCEPT !.ret = flir_boson_i2c_read(t.r2)]
        ELSE IF payload_len > 0
             THEN IF flir_boson_i2c_read(t.r3) # 0
                  THEN [nothing EXCEPT !.ret = flir_boson_i2c_read(t.r3),
                                       !.warned = payload_len # expected_len]
                  ELSE [ret |-> 0,
                        payload |-> Store(payload, 0, SubSeq(bytes, 1,
                                       IF size < Len(bytes) THEN size ELSE Len(bytes))),
                        stored |-> size,
                        past |-> size > FLIR_FSLP_MAX_DATA,
                        warned |-> payload_len # expected_len]
        ELSE [nothing EXCEPT !.ret = 0, !.warned = payload_len # expected_len]

(* ------------------------------------------------------------------ *)
(* Layer 2: command dispatcher                                        *)
(* ------------------------------------------------------------------ *)
\* The 12-byte command header followed by the command data.
CommandPayload(seq, fn, data) ==
    UINT32_ToBytes(seq) \o UINT32_ToBytes(fn) \o UINT32_ToBytes(PENDING) \o data

\* a plausible slip: the retry is granted on the wrong pass
MayRetry_Off(rtry) == rtry = 1

\* if (retry == 0) continue: the pass may be followed by another
MayRetry(rtry) == rtry = 0

\* a plausible slip: the camera's status is replaced by a generic error
StatusResult_Generic(st) == U(FLR_COMM_ERROR_READING_COMM)

\* return (FLR_RESULT)status
StatusResult(st) == st

\* a plausible slip: the status is looked at before the command id
Validate_StatusFirst(buf, seq, fn) ==
    IF byteToUINT32(buf, 0) # seq THEN "seq"
    ELSE IF byteToUINT32(buf, 8) # U(R_SUCCESS) THEN "status"
    ELSE IF byteToUINT32(buf, 4) # fn THEN "id"
    ELSE "ok"

\* The three validations of a response held in buf, in the order of the code:
\* sequence number, command id, status.  "seq", "id", "status" name the one
\* that fails, "ok" means all passed.
Validate(buf, seq, fn) ==
    IF byteToUINT32(buf, 0) # seq THEN "seq"
    ELSE IF byteToUINT32(buf, 4) # fn THEN "id"
    ELSE IF byteToUINT32(buf, 8) # U(R_SUCCESS) THEN "status"
    ELSE "ok"

\* how many header fields Validate read from the buffer
FieldsParsed(v) == CASE v = "seq" -> 1 [] v = "id" -> 2 [] OTHER -> 3

\* One pass of the body of the read loop after flir_fslp_read_frame returned
\* rfret with the buffer buf, and the code after the loop when the pass leaves
\* it: [again, result, copied, parsed].  again: the loop continues with the
\* next retry; result: the value returned; copied: bytes copied to
\* receive_data; parsed: how many header fields were read from buf.
DispatcherCheck(rfret, buf, rtry, seq, fn, rbytes) ==
    LET expected_resp_len == rbytes + 12
        v == Validate(buf, seq, fn)
        Return(r, n) == [again |-> FALSE, result |-> r, copied |-> << >>, parsed |-> n]
        Continue(n) == [again |-> TRUE, result |-> U(0), copied |-> << >>, parsed |-> n]
    IN  IF rfret # 0 THEN Return(U(FLR_COMM_ERROR_READING_COMM), 0)
        ELSE IF expected_resp_len < 12
             THEN (IF MayRetry(rtry) THEN Continue(0)
                   ELSE Return(U(FLR_COMM_ERROR_READING_COMM), 0))
        ELSE IF v = "seq"
             THEN (IF MayRetry(rtry) THEN Continue(1)
                   ELSE Return(U(R_SDK_DSPCH_SEQUENCE_MISMATCH), 1))
        ELSE IF v = "id" THEN Return(U(R_SDK_DSPCH_ID_MISMATCH), 2)
        ELSE IF v = "status" THEN Return(StatusResult(byteToUINT32(buf, 8)), 3)
        ELSE [again |-> FALSE, result |-> U(R_SUCCESS),
              copied |-> IF rbytes > 0 THEN SubSeq(buf, 13, 12 + rbytes) ELSE << >>,
              parsed |-> 3]

(* ------------------------------------------------------------------ *)
(* The V4L2 core (src/unnamed/part_002): result codes and tables      *)
(* ------------------------------------------------------------------ *)
\* FLR_RESULT is an unsigned type (MAX_ERR_CODE = 0xFFFFFFFF is one of its
\* enumerators), so a negative errno stored in a FLR_RESULT wraps to
\* 2^32 - errno.  Such a value is kept here as the negative number itself:
\* a result v < 0 stands for the u32 2^32 + v, and (int) of it is v again.
flr_result_to_errno_SuccessOrRemote(code) ==
    IF code = R_SUCCESS THEN 0 ELSE 0 - EREMOTEIO

flr_result_to_errno(code) ==
    CASE code = R_SUCCESS -> 0
      [] code \in { FLR_BAD_ARG_POINTER_ERROR, R_CAM_API_INVALID_INPUT } -> 0 - EINVAL
      [] code \in { FLR_COMM_TIMEOUT_ERROR, FLR_COMM_ERROR_READING_COMM } -> 0 - EIO
      [] code \in { FLR_NOT_READY, FLR_CAM_BUSY } -> 0 - EBUSY
      [] code \in { FLR_RANGE_ERROR, FLR_DATA_SIZE_ERROR } -> 0 - ERANGE
      [] code \in { R_SDK_PKG_BUFFER_OVERFLOW, R_CAM_PKG_BUFFER_OVERFLOW } -> 0 - ENOSPC
      [] code \in { FLR_COMM_PORT_NOT_OPEN, FLR_COMM_NO_DEV } -> 0 - ENODEV
      [] code \in { R_SDK_DSPCH_SEQUENCE_MISMATCH, R_SDK_DSPCH_ID_MISMATCH } -> 0 - EPROTO
      [] OTHER -> 0 - EREMOTEIO

\* a | b and a & b of two results that are not negative
RECURSIVE BitOr(_, _)
BitOr(a, b) ==
    IF a = 0 THEN b
    ELSE IF b = 0 THEN a
    ELSE (IF a % 2 = 1 \/ b % 2 = 1 THEN 1 ELSE 0) + 2 * BitOr(a \div 2, b \div 2)

RECURSIVE BitAnd(_, _)
BitAnd(a, b) ==
    IF a = 0 \/ b = 0 THEN 0
    ELSE (IF a % 2 = 1 /\ b % 2 = 1 THEN 1 ELSE 0) + 2 * BitAnd(a \div 2, b \div 2)

\* boson_result_to_errno of the VVCAM core
boson_result_to_errno(code) ==
    CASE code = R_SUCCESS -> 0
      [] code \in { FLR_BAD_ARG_POINTER_ERROR, R_CAM_API_INVALID_INPUT } -> 0 - EINVAL
      [] code \in { FLR_COMM_TIMEOUT_ERROR, FLR_COMM_ERROR_READING_COMM } -> 0 - EIO
      [] code \in { FLR_NOT_READY, FLR_CAM_BUSY } -> 0 - EBUSY
      [] code \in { FLR_RANGE_ERROR, FLR_DATA_SIZE_ERROR } -> 0 - ERANGE
      [] code \in { R_SDK_PKG_BUFFER_OVERFLOW, R_CAM_PKG_BUFFER_OVERFLOW } -> 0 - ENOSPC
      [] code \in { FLR_COMM_PORT_NOT_OPEN, FLR_COMM_NO_DEV } -> 0 - ENODEV
      [] code \in { R_SDK_DSPCH_SEQUENCE_MISMATCH, R_SDK_DSPCH_ID_MISMATCH } -> 0 - EPROTO
      [] OTHER -> 0 - EREMOTEIO

\* static int enable_radiometry = 1
enable_radiometry == TRUE

\* flir_boson_formats[] and flir_boson_framesizes[]
flir_boson_formats ==
    << [code |-> "UYVY8_1X16", flir_type |-> "COLOR",  flir_mux_type |-> "COLOR"],
       [code |-> "Y14_1X14",   flir_type |-> "MONO14", flir_mux_type |-> "MONO16"],
       [code |-> "Y8_1X8",     flir_type |-> "MONO8",  flir_mux_type |-> "MONO8"] >>

flir_boson_framesizes ==
    << [width |-> 320, height |-> 256],
       [width |-> 640, height |-> 512],
       [width |-> 640, height |-> 514] >>

\* the table entry of a media bus code (an index of flir_boson_formats): the
\* YUV codes stand for UYVY8_1X16, Y10/Y12/Y16 for Y14_1X14, an unknown code
\* gives the first entry
flir_boson_find_format(code) ==
    LET code_search ==
            CASE code \in { "YUYV8_2X8", "UYVY8_1X16", "YUYV8_1X16" } -> "UYVY8_1X16"
              [] code \in { "Y10_1X10", "Y12_1X12", "Y16_1X16" } -> "Y14_1X14"
              [] OTHER -> code
        hit == { i \in 1..Len(flir_boson_formats) :
                    flir_boson_formats[i].code = code_search }
    IN  IF hit = { } THEN 1 ELSE CHOOSE i \in hit : \A j \in hit : i <= j

\* the table entry of a size, 640x512 when there is none
flir_boson_find_framesize(width, height) ==
    LET hit == { i \in 1..Len(flir_boson_framesizes) :
                    /\ flir_boson_framesizes[i].width = width
                    /\ flir_boson_framesizes[i].height = height }
    IN  IF hit = { } THEN 2 ELSE CHOOSE i \in hit : \A j \in hit : i <= j

\* sensor->fmt as the two tables give it
FmtOf(f, s) ==
    [code   |-> flir_boson_formats[f].code,
     width  |-> flir_boson_framesizes[s].width,
     height |-> flir_boson_framesizes[s].height]

\* a packager call: the command and its argument; none while no call is made
NoCmd == [id |-> "none", val |-> "none"]
Cmd(id, val) == [id |-> id, val |-> val]

\* what a command dispatch returns to the core: success, or the code of a
\* failed transport read
DispatchResults == { R_SUCCESS, FLR_COMM_ERROR_READING_COMM }

\* the MIPI states DVO_GETMIPISTATE may report
MipiStates == { FLIR_MIPI_STATE_OFF, FLIR_MIPI_STATE_ACTIVE }

\* the threads that call the subdevice operations, and the thread that runs
\* flir_boson_probe
Callers == { "t1", "t2" }
Threads == Callers \cup { "probe" }

\* arguments of the calls made
PowerArgs == { [on |-> TRUE], [on |-> FALSE] }
StreamArgs == { [enable |-> TRUE], [enable |-> FALSE] }
FormatArgs ==
    { [pad |-> 0, which |-> "ACTIVE", code |-> "Y16_1X16",   width |-> 640, height |-> 514],
      [pad |-> 0, which |-> "ACTIVE", code |-> "UYVY8_1X16", width |-> 320, height |-> 256],
      [pad |-> 0, which |-> "TRY",    code |-> "Y8_1X8",     width |-> 640, height |-> 512],
      [pad |-> 1, which |-> "ACTIVE", code |-> "Y8_1X8",     width |-> 640, height |-> 512] }

\* the locals of a thread outside any call
IdleThread ==
    [pc |-> "idle", fn |-> "none", arg |-> [on |-> FALSE], ret |-> R_SUCCESS,
     rv |-> 0, cmd |-> NoCmd, last |-> R_SUCCESS, n |-> 0, agc |-> R_SUCCESS,
     first |-> NoCmd, prev |-> "none", failed |-> "none", fails |-> { },
     mipi_ok |-> { },
     at_lock |-> [powered |-> FALSE, streaming |-> FALSE]]

(* ------------------------------------------------------------------ *)
(* Initial state                                                      *)
(* ------------------------------------------------------------------ *)
\* probe sets command_count to get_random_u32() >> 23 (0..511); the counter
\* reaches every u32 value as commands are issued.
InitialCounts == { U(2), PENDING }

\* the transport side of the driver before any command is issued
InitTransport ==
    /\ command_count \in InitialCounts
    /\ calls = 0
    /\ pc = "idle"
    /\ op = "none"
    /\ seq_num = U(0)
    /\ fn_id = U(0)
    /\ send_data = << >>
    /\ receive_bytes = 0
    /\ response_payload = Zeros(Window)
    /\ retry = 0
    /\ status = U(0)
    /\ ret = U(R_SUCCESS)
    /\ receive_data = << >>
    /\ out = << >>
    /\ args = << >>
    /\ result = U(R_SUCCESS)
    /\ wire = << >>
    /\ frames = << >>
    /\ overflow = FALSE
    /\ fpc = "start"
    /\ frame_in = << >>
    /\ frame_ret = 0
    /\ frame_wire = << >>
    /\ frame_buf = << >>
    /\ frame_read = [ret |-> 0, stored |-> 0, past |-> FALSE, warned |-> FALSE]
    /\ hdr_in = << >>
    /\ hdr_bytes = << >>
    /\ hdr_out = << >>

\* nothing has been converted yet
NoConversion == [code |-> R_SUCCESS, v4l2 |-> 0, vvcam |-> 0, done |-> FALSE]

\* no call of CLIENT_dispatcher is running
NoFrame == [len |-> 0, seq |-> 0, fn |-> 0, status |-> R_SUCCESS]
ClientIdle ==
    [pc |-> "idle", seqNum |-> 0, fnID |-> 0, expected |-> 0, receiveBytes |-> 0,
     frame |-> NoFrame, returnSequence |-> 0, cmdID |-> 0, copied |-> 0,
     res |-> R_SUCCESS]

\* a thread of the legacy core outside any call, and the legacy device as
\* its probe leaves it (devm_kzalloc, mutex_init)
LegacyThreads == { "u1", "u2" }
LegacyIdle ==
    [pc |-> "idle", fn |-> "none", cmd |-> "none", on |-> FALSE, nested |-> FALSE,
     ret |-> 0, status |-> 0]
LegacyProbed ==
    [lock |-> "free", powered |-> FALSE, streaming |-> FALSE,
     mipi_state |-> FLIR_MIPI_STATE_OFF,
     th |-> [t \in LegacyThreads |-> LegacyIdle]]

\* a thread of the VVCAM core outside any call, and the VVCAM device as
\* flir_boson_probe leaves it (devm_kzalloc, mode_change = true); acked is
\* the state of the last SET_MIPI_STATE the camera answered with success
VvcamThreads == { "v1", "v2" }
NoAck == 0 - 1
VvcamIdle == [pc |-> "idle", fn |-> "none", cmd |-> "none", on |-> FALSE, ret |-> 0]
VvcamProbed ==
    [lock |-> "free", powered |-> FALSE, streaming |-> FALSE, mode_change |-> TRUE,
     mipi_state |-> FLIR_MIPI_STATE_OFF, acked |-> NoAck,
     th |-> [t \in VvcamThreads |-> VvcamIdle]]

InitExt ==
    /\ conv = NoConversion
    /\ cd = ClientIdle
    /\ lg = LegacyProbed
    /\ vv = VvcamProbed

\* struct flir_boson_dev as flir_boson_probe fills it in
ProbedSensor ==
    [powered |-> FALSE, streaming |-> FALSE,
     mipi_state |-> FLIR_MIPI_STATE_OFF,
     current_format |-> 1, current_framesize |-> 2,
     fmt |-> FmtOf(1, 2)]

\* no subdevice operation is running; probe has registered the subdevice
\* and is about to read the serial number
ProbedThreads ==
    [t \in Threads |->
       IF t = "probe" THEN [IdleThread EXCEPT !.pc = "pr_sn", !.fn = "probe"]
       ELSE IdleThread]

Init ==
    /\ InitTransport
    /\ InitExt
    /\ lock = "free"
    /\ sensor = ProbedSensor
    /\ th = ProbedThreads
    /\ configured = { }
    /\ ops = 0

(* ------------------------------------------------------------------ *)
(* Layer 3: command packagers (entry of a call)                       *)
(* ------------------------------------------------------------------ *)
\* u32 seq_num = ++sensor->command_count, then the call of the dispatcher with
\* the packager's arguments; the dispatcher's locals are not initialised.
EnterDispatcher(name, cmd, data, rbytes) ==
    /\ pc = "idle"
    /\ calls < MaxCalls
    /\ calls' = calls + 1
    /\ command_count' = Inc(command_count)
    /\ seq_num' = Inc(command_count)
    /\ op' = name
    /\ fn_id' = cmd
    /\ send_data' = data
    /\ receive_bytes' = rbytes
    /\ \E g \in StackGarbage(Inc(command_count), cmd) : response_payload' = g
    /\ retry' = 0
    /\ status' = U(0)
    /\ ret' = U(R_SUCCESS)
    /\ receive_data' = << >>
    /\ out' = << >>
    /\ result' = U(R_SUCCESS)
    /\ wire' = << >>
    /\ frames' = << >>
    /\ overflow' = FALSE
    /\ pc' = "flush"
    /\ UNCHANGED << frameVars, coreVars, extVars >>

flir_boson_send_int_cmd ==
    \E val \in { U(FLIR_MIPI_STATE_OFF), U(FLIR_MIPI_STATE_ACTIVE) } :
        /\ EnterDispatcher("send_int_cmd", U(DVO_SET_MIPI_STATE), UINT32_ToBytes(val), 0)
        /\ args' = << val >>

flir_boson_get_int_val ==
    /\ EnterDispatcher("get_int_val", U(BOSON_GETCAMERASN), << >>, 4)
    /\ args' = << >>

\* (output, source, type) of the calls made: the MIPI output routed from the
\* IR source, and any other triple of enumerators
MuxArgs == { << U(1), U(0), U(2) >>, << U(0), U(1), U(3) >> }

\* sendBytes = 12, receiveBytes = 0: the three arguments, each through
\* UINT32_ToBytes, at offsets 0, 4 and 8
flir_boson_set_dvo_muxtype ==
    \E a \in MuxArgs :
        /\ EnterDispatcher("set_dvo_muxtype", U(DVOMUX_SETTYPE),
                           UINT32_ToBytes(a[1]) \o UINT32_ToBytes(a[2])
                             \o UINT32_ToBytes(a[3]), 0)
        /\ args' = a

\* sendBytes = 4, receiveBytes = 8: the output argument through UINT32_ToBytes
flir_boson_get_dvo_muxtype ==
    \E a \in MuxArgs :
        /\ EnterDispatcher("get_dvo_muxtype", U(DVOMUX_GETTYPE),
                           UINT32_ToBytes(a[1]), 8)
        /\ args' = << a[1] >>

\* out-pointers of flir_boson_get_dvo_muxtype filled in the other order
PackagerOut_Swapped(name, r, rbytes, data) ==
    CASE name = "get_int_val" /\ r = U(R_SUCCESS) /\ rbytes >= 4
            -> << byteToUINT32(data, 0) >>
      [] name = "get_dvo_muxtype" /\ r = U(R_SUCCESS)
            -> << byteToUINT32(data, 4), byteToUINT32(data, 0) >>
      [] OTHER -> << >>

\* what the packager stores through its out-pointers once the dispatcher
\* returned r with data copied to receive_data
PackagerOut(name, r, rbytes, data) ==
    CASE name = "get_int_val" /\ r = U(R_SUCCESS) /\ rbytes >= 4
            -> << byteToUINT32(data, 0) >>
      [] name = "get_dvo_muxtype" /\ r = U(R_SUCCESS)
            -> << byteToUINT32(data, 0), byteToUINT32(data, 4) >>
      [] OTHER -> << >>

\* what the packager returns once the dispatcher returned r: the two mux
\* packagers test the code and return it when it is not zero, R_SUCCESS
\* otherwise; the other two return the dispatcher's value as it is
PackagerResult_Generic(name, r) ==
    IF r # U(R_SUCCESS) THEN U(FLR_COMM_ERROR_READING_COMM) ELSE r

PackagerResult(name, r) ==
    CASE name \in { "set_dvo_muxtype", "get_dvo_muxtype" }
            -> IF r # U(0) THEN r ELSE U(R_SUCCESS)
      [] OTHER -> r

(* ------------------------------------------------------------------ *)
(* Dispatcher steps; a step that returns from the dispatcher also     *)
(* runs the rest of the packager that called it                       *)
(* ------------------------------------------------------------------ *)
\* the words a read of the flush loop may bring: pending data of the RX
\* buffer, or the idle pattern
FlushWords == { U(0), << 258, 772 >>, PENDING }

\* do { ret = i2c_read(&status, 4) } while (ret == 0 && status != 0xFFFFFFFF):
\* one read of the loop.  The read fails (status is left as it is), or it
\* brings a word: the loop goes on until that word is the idle pattern.
FlushRx ==
    /\ pc = "flush"
    /\ \E ok \in BOOLEAN, w \in FlushWords :
         LET r == flir_boson_i2c_read(ok)
         IN  /\ status' = IF r = 0 THEN w ELSE status
             /\ pc' = IF r # 0 THEN "done"
                      ELSE IF w # PENDING THEN "flush" ELSE "send"
             /\ ret' = IF r # 0 THEN U(FLR_COMM_ERROR_READING_COMM) ELSE ret
             /\ out' = IF r # 0
                       THEN PackagerOut(op, U(FLR_COMM_ERROR_READING_COMM),
                                        receive_bytes, receive_data)
                       ELSE out
             /\ result' = IF r # 0
                          THEN PackagerResult(op, U(FLR_COMM_ERROR_READING_COMM))
                          ELSE result
    /\ UNCHANGED << command_count, calls, op, seq_num, fn_id, send_data,
                    receive_bytes, response_payload, retry, receive_data,
                    args, wire, frames, overflow >>
    /\ UNCHANGED << frameVars, coreVars, extVars >>

\* build the header, copy the data into command_payload[FLIR_FSLP_MAX_DATA]
\* (the copy is not bounded: a body of more than 244 bytes runs past the end
\* of the array), flir_fslp_send_frame, msleep
SendCommand ==
    /\ pc = "send"
    /\ \E ok \in BOOLEAN :
         LET sf == flir_fslp_send_frame(CommandPayload(seq_num, fn_id, send_data), ok)
         IN  /\ wire' = wire \o sf.written
             /\ overflow' = (overflow \/ 12 + Len(send_data) > FLIR_FSLP_MAX_DATA)
             /\ IF sf.ret # 0
                THEN /\ ret' = U(FLR_COMM_ERROR_WRITING_COMM)
                     /\ out' = PackagerOut(op, U(FLR_COMM_ERROR_WRITING_COMM),
                                           receive_bytes, receive_data)
                     /\ result' = PackagerResult(op, U(FLR_COMM_ERROR_WRITING_COMM))
                     /\ pc' = "done"
                ELSE /\ UNCHANGED << ret, out, result >>
                     /\ pc' = "read"
    /\ UNCHANGED << command_count, calls, op, seq_num, fn_id, send_data,
                    receive_bytes, response_payload, retry, status, receive_data,
                    args, frames >>
    /\ UNCHANGED << frameVars, coreVars, extVars >>

\* one pass of for (retry = 0; retry < 2; retry++), and the code after the
\* loop when the pass leaves it
ReadResponse ==
    /\ pc = "read"
    /\ retry < RetryLimit
    /\ \E t \in ReadScripts(seq_num, fn_id, receive_bytes) :
         LET rf == flir_fslp_read_frame(t, CamPayload(t), response_payload,
                                        receive_bytes + 12)
             c == DispatcherCheck(rf.ret, rf.payload, retry, seq_num, fn_id,
                                  receive_bytes)
         IN  /\ response_payload' = rf.payload
             /\ overflow' = (overflow \/ rf.past)
             /\ frames' = Append(frames, [t |-> t, ret |-> rf.ret,
                                          stored |-> rf.stored, parsed |-> c.parsed,
                                          warned |-> rf.warned])
             /\ status' = IF c.parsed = 3 THEN byteToUINT32(rf.payload, 8)
                          ELSE status
             /\ IF c.again
                THEN /\ retry' = retry + 1
                     /\ UNCHANGED << pc, ret, receive_data, out, result >>
                ELSE /\ pc' = "done"
                     /\ ret' = c.result
                     /\ receive_data' = c.copied
                     /\ out' = PackagerOut(op, c.result, receive_bytes, c.copied)
                     /\ result' = PackagerResult(op, c.result)
                     /\ UNCHANGED retry
    /\ UNCHANGED << command_count, calls, op, seq_num, fn_id, send_data,
                    receive_bytes, args, wire >>
    /\ UNCHANGED << frameVars, coreVars, extVars >>

(* ------------------------------------------------------------------ *)
(* Return to the caller                                               *)
(* ------------------------------------------------------------------ *)
\* the packager has returned: its locals and the dispatcher's are gone
PackagerReturn ==
    /\ pc = "done"
    /\ pc' = "idle"
    /\ op' = "none"
    /\ seq_num' = U(0)
    /\ fn_id' = U(0)
    /\ send_data' = << >>
    /\ receive_bytes' = 0
    /\ response_payload' = Zeros(Window)
    /\ retry' = 0
    /\ status' = U(0)
    /\ ret' = U(R_SUCCESS)
    /\ receive_data' = << >>
    /\ out' = << >>
    /\ args' = << >>
    /\ result' = U(R_SUCCESS)
    /\ wire' = << >>
    /\ frames' = << >>
    /\ overflow' = FALSE
    /\ UNCHANGED << command_count, calls >>
    /\ UNCHANGED << frameVars, coreVars, extVars >>

\* bytes were stored past the end of response_payload: the dispatcher's stack
\* frame is damaged, and the return may not happen at all
StackSmashed ==
    /\ pc = "done"
    /\ overflow
    /\ pc' = "crashed"
    /\ UNCHANGED << command_count, calls, op, seq_num, fn_id, send_data,
                    receive_bytes, response_payload, retry, status, ret,
                    receive_data, out, args, result, wire, frames, overflow >>
    /\ UNCHANGED << frameVars, coreVars, extVars >>

Next ==
    \/ flir_boson_send_int_cmd
    \/ flir_boson_get_int_val
    \/ flir_boson_set_dvo_muxtype
    \/ flir_boson_get_dvo_muxtype
    \/ FlushRx
    \/ SendCommand
    \/ ReadResponse
    \/ PackagerReturn
    \/ StackSmashed

Spec == Init /\ [][Next]_vars

\* Every transport read and write returns, and the code between two of them
\* runs to the next one: a step that can be taken is taken.  What the camera
\* and the bus answer stays free.
LiveSpec == Spec /\ WF_vars(Next)

(* ------------------------------------------------------------------ *)
(* The dispatcher called with a request body of any size              *)
(* ------------------------------------------------------------------ *)
\* send_bytes of a call: no body, the largest body that fits the frame
\* payload limit with the 12-byte header, one byte more, and more still
BodyLens == { 0, FLIR_FSLP_MAX_DATA - 12, FLIR_FSLP_MAX_DATA - 11,
              FLIR_FSLP_MAX_DATA + 44 }

\* flir_command_dispatcher(sensor, seq_num, fn_id, send_data, send_bytes,
\* receive_data, &receive_bytes, sleep_ms) with *receive_bytes = 0, the caller
\* taking seq_num from the counter as the packagers do
flir_command_dispatcher ==
    \E n \in BodyLens :
        /\ EnterDispatcher("dispatcher", U(DVO_SET_MIPI_STATE), FramePayload(n), 0)
        /\ args' = << >>

DispatchNext ==
    \/ flir_command_dispatcher
    \/ FlushRx
    \/ SendCommand
    \/ ReadResponse
    \/ PackagerReturn
    \/ StackSmashed

DispatchSpec == Init /\ [][DispatchNext]_vars

(* ------------------------------------------------------------------ *)
(* The framing layer and the serialisers called on their own         *)
(* ------------------------------------------------------------------ *)
\* payload lengths handed to flir_fslp_send_frame: around both ends of what
\* it accepts, and where the two length bytes differ
FrameLens == { 0, 1, 12, 16, FLIR_FSLP_MAX_DATA - 1, FLIR_FSLP_MAX_DATA,
               FLIR_FSLP_MAX_DATA + 1, FLIR_FSLP_MAX_DATA + 44 }

\* u32 values put through the serialisers
HeaderVals == { U(0), U(3), U(DVO_SET_MIPI_STATE), << 258, 772 >>,
                << HALF \div 2, 0 >>, PENDING }

\* flir_fslp_send_frame(sensor, payload, payload_len)
SendFrame ==
    /\ fpc = "start"
    /\ \E n \in FrameLens, ok \in BOOLEAN :
         LET sf == flir_fslp_send_frame(FramePayload(n), ok)
         IN  /\ frame_in' = FramePayload(n)
             /\ frame_ret' = sf.ret
             /\ frame_wire' = sf.written
    /\ fpc' = "sent"
    /\ UNCHANGED << frame_buf, frame_read, hdr_in, hdr_bytes, hdr_out >>
    /\ UNCHANGED << dispVars, coreVars, extVars >>

\* The bus hands back, read after read, the bytes b that were written to it:
\* the script flir_fslp_read_frame meets.
Loopback(b) ==
    [r0 |-> TRUE, h0 |-> b[1], r1 |-> TRUE, h1 |-> b[2], r2 |-> TRUE,
     len |-> b[3] * 256 + b[4], r3 |-> TRUE]

\* flir_fslp_read_frame(sensor, payload, expected_len) on the bytes the
\* successful flir_fslp_send_frame before it wrote, into a zeroed buffer of
\* FLIR_FSLP_MAX_DATA bytes, expected_len being the length of what was sent
ReadFrameBack ==
    /\ fpc = "sent"
    /\ frame_ret = 0
    /\ LET b == frame_wire[1].bytes
           rf == flir_fslp_read_frame(Loopback(b), SubSeq(b, 5, Len(b)),
                                      Zeros(FLIR_FSLP_MAX_DATA), Len(frame_in))
       IN  /\ frame_buf' = rf.payload
           /\ frame_read' = [ret |-> rf.ret, stored |-> rf.stored,
                             past |-> rf.past, warned |-> rf.warned]
    /\ fpc' = "looped"
    /\ UNCHANGED << frame_in, frame_ret, frame_wire, hdr_in, hdr_bytes, hdr_out >>
    /\ UNCHANGED << dispVars, coreVars, extVars >>

\* three UINT32_ToBytes to 12 consecutive bytes, three byteToUINT32 back
HeaderRoundTrip ==
    /\ fpc = "start"
    /\ \E s \in HeaderVals, f \in HeaderVals, st \in HeaderVals :
         LET b == UINT32_ToBytes(s) \o UINT32_ToBytes(f) \o UINT32_ToBytes(st)
         IN  /\ hdr_in' = << s, f, st >>
             /\ hdr_bytes' = b
             /\ hdr_out' = << byteToUINT32(b, 0), byteToUINT32(b, 4),
                              byteToUINT32(b, 8) >>
    /\ fpc' = "header"
    /\ UNCHANGED << frame_in, frame_ret, frame_wire, frame_buf, frame_read >>
    /\ UNCHANGED << dispVars, coreVars, extVars >>

FrameNext ==
    \/ SendFrame
    \/ ReadFrameBack
    \/ HeaderRoundTrip

FrameSpec == Init /\ [][FrameNext]_vars

(* ------------------------------------------------------------------ *)
(* The V4L2 core (src/unnamed/part_002): s_power, s_stream, set_fmt   *)
(* called from two threads while flir_boson_probe runs its last       *)
(* commands, the subdevice being registered already.  A packager call *)
(* is two steps: the request leaves, the result comes back; what the  *)
(* result is stays free.                                              *)
(* ------------------------------------------------------------------ *)
\* new_format and new_framesize of a set_fmt call (indices of the tables)
NewFormat(a) == flir_boson_find_format(a.code)
NewFramesize(a) == flir_boson_find_framesize(a.width, a.height)

\* new_format->flir_type == FLR_DVO_TYPE_COLOR ? FLR_DVO_YCBCR : FLR_DVO_IR16
OutFormat(flir_type) == IF flir_type = "COLOR" THEN "YCBCR" ELSE "IR16"

\* the places of the code where a packager is called
PowerSites == { "pw_off", "pw_type", "pw_format", "pw_iface", "pw_get", "pd_off" }
StreamSites == { "st_lane", "st_active", "st_get", "st_off" }
FormatSites == { "sf_off", "sf_tel1", "sf_tel2", "sf_tel3", "sf_type", "sf_format",
                 "sf_gain", "sf_agcmode", "sf_ffc", "sf_off2", "sf_mux" }
AgcSites == { "sf_agc" }
ProbeSites == { "pr_sn", "pr_off" }
Sites == PowerSites \cup StreamSites \cup FormatSites \cup AgcSites \cup ProbeSites

\* the packager call made at the place thread t stands at
CommandAt(t) ==
    LET l  == th[t]
        cf == flir_boson_formats[sensor.current_format]
    IN  CASE l.pc \in { "pw_off", "pd_off", "st_off", "sf_off", "sf_off2", "pr_off" }
                -> Cmd("DVO_SETMIPISTATE", FLIR_MIPI_STATE_OFF)
          [] l.pc = "st_active" -> Cmd("DVO_SETMIPISTATE", FLIR_MIPI_STATE_ACTIVE)
          [] l.pc \in { "pw_get", "st_get" } -> Cmd("DVO_GETMIPISTATE", "none")
          [] l.pc = "pw_type" -> Cmd("DVO_SETTYPE", cf.flir_type)
          [] l.pc = "pw_format" -> Cmd("DVO_SETOUTPUTFORMAT", OutFormat(cf.flir_type))
          [] l.pc = "pw_iface" -> Cmd("DVO_SETOUTPUTINTERFACE", "MIPI")
          [] l.pc = "st_lane" -> Cmd("DVO_SETMIPICLOCKLANEMODE", "CONTINUOUS")
          [] l.pc = "sf_tel1" -> Cmd("TELEMETRY_SETSTATE",
                                     IF l.arg.height >= 512 THEN "ENABLE" ELSE "DISABLE")
          [] l.pc = "sf_tel2" -> Cmd("TELEMETRY_SETLOCATION", "BOTTOM")
          [] l.pc = "sf_tel3" -> Cmd("TELEMETRY_SETMIPIEMBEDDEDDATATAG", "DISABLE")
          [] l.pc = "sf_type"
                -> Cmd("DVO_SETTYPE", flir_boson_formats[NewFormat(l.arg)].flir_type)
          [] l.pc = "sf_format"
                -> Cmd("DVO_SETOUTPUTFORMAT",
                       OutFormat(flir_boson_formats[NewFormat(l.arg)].flir_type))
          [] l.pc = "sf_agc" -> Cmd("AGC_GET", l.n)
          [] l.pc = "sf_gain" -> Cmd("BOSON_SETGAINMODE", "AUTO_GAIN")
          [] l.pc = "sf_agcmode" -> Cmd("AGC_SETMODE", "NORMAL")
          [] l.pc = "sf_ffc" -> Cmd("BOSON_RUNFFC", "none")
          [] l.pc = "sf_mux"
                -> Cmd("DVOMUX_SETTYPE", flir_boson_formats[NewFormat(l.arg)].flir_mux_type)
          [] OTHER -> Cmd("BOSON_GETCAMERASN", "none")

\* a packager is entered: seq_num = ++sensor->command_count and the request
\* goes to the camera.  Nothing in the packager looks at sensor->lock.
PackagerCall(t) ==
    /\ th[t].pc \in Sites
    /\ th[t].cmd = NoCmd
    /\ th' = [th EXCEPT ![t].cmd = CommandAt(t),
                        ![t].first = IF @ = NoCmd THEN CommandAt(t) ELSE @]
    /\ UNCHANGED << lock, sensor, configured, ops >>
    /\ UNCHANGED << dispVars, frameVars, extVars >>

\* the locals of a thread whose packager call returned r
Answered(l, r) ==
    [l EXCEPT !.cmd = NoCmd,
              !.last = r,
              !.prev = l.cmd.id,
              !.failed = IF @ = "none" /\ r # R_SUCCESS THEN l.cmd.id ELSE @,
              !.fails = IF r # R_SUCCESS THEN @ \cup { r } ELSE @,
              !.mipi_ok = IF l.cmd.id = "DVO_SETMIPISTATE" /\ r = R_SUCCESS
                          THEN @ \cup { l.cmd.val } ELSE @]

\* what the camera has been told with success so far
Configure(c, cmd, r) ==
    IF r # R_SUCCESS THEN c
    ELSE CASE cmd.id = "DVO_SETOUTPUTINTERFACE" -> c \cup { "interface" }
           [] cmd.id = "DVO_SETTYPE" -> c \cup { "type" }
           [] cmd.id = "DVO_SETOUTPUTFORMAT" -> c \cup { "format" }
           [] cmd.id = "DVOMUX_SETTYPE" -> c \cup { "mux" }
           [] OTHER -> c

\* a subdevice operation is called
Enter(t) ==
    /\ th[t].pc = "idle"
    /\ ops < MaxOps
    /\ ops' = ops + 1
    /\ \/ \E a \in PowerArgs :
            th' = [th EXCEPT ![t] = [IdleThread EXCEPT !.pc = "lock",
                                                       !.fn = "s_power", !.arg = a]]
       \/ \E a \in StreamArgs :
            th' = [th EXCEPT ![t] = [IdleThread EXCEPT !.pc = "lock",
                                                       !.fn = "s_stream", !.arg = a]]
       \/ \E a \in FormatArgs :
            \* if (format->pad != 0) return -EINVAL; a TRY format is stored
            \* in the pad's try format and the function returns 0
            th' = [th EXCEPT ![t] =
                     [IdleThread EXCEPT !.fn = "set_fmt", !.arg = a,
                        !.pc = IF a.pad # 0 \/ a.which = "TRY" THEN "return" ELSE "lock",
                        !.rv = IF a.pad # 0 THEN 0 - EINVAL ELSE 0]]
    /\ UNCHANGED << lock, sensor, configured >>
    /\ UNCHANGED << dispVars, frameVars, extVars >>

\* mutex_lock(&sensor->lock) of thread t, and the locals after it
Locked(t, l) ==
    /\ lock = "free"
    /\ lock' = t
    /\ th' = [th EXCEPT ![t] = [l EXCEPT !.at_lock = sensor]]

\* PowerOnStep with the goto unlock commented out, as in the legacy core:
\* after a failure powered is set and the function goes on to the
\* DVO_GETMIPISTATE read
PowerOnStep_NoGoto(a, r, next) ==
    IF r # R_SUCCESS
    THEN [l |-> [a EXCEPT !.ret = flr_result_to_errno(r), !.pc = "pw_get"],
          powered |-> TRUE]
    ELSE [l |-> [a EXCEPT !.ret = r, !.pc = next],
          powered |-> IF next = "pw_get" THEN TRUE ELSE sensor.powered]

\* the locals of flir_boson_s_power and the powered flag once a command of
\* the power-on sequence returned r.  Each command is guarded by
\* if (ret == R_SUCCESS), so after a failure the rest of the chain is
\* skipped, ret becomes the errno and the function leaves through unlock;
\* after the last command succeeded, sensor->powered = 1
PowerOnStep(a, r, next) ==
    IF r # R_SUCCESS
    THEN [l |-> [a EXCEPT !.ret = flr_result_to_errno(r), !.pc = "unlock"],
          powered |-> sensor.powered]
    ELSE [l |-> [a EXCEPT !.ret = r, !.pc = next],
          powered |-> IF next = "pw_get" THEN TRUE ELSE sensor.powered]

\* PowerDownStreaming had the flag waited for the command's success
PowerDownStreaming_Checked(r) == IF r = R_SUCCESS THEN FALSE ELSE sensor.streaming

\* sensor->streaming once the SET_MIPI_STATE(OFF) of the power-down branch
\* returned r: the failure is only dev_warn'ed, then sensor->streaming = 0
PowerDownStreaming(r) == FALSE

\* flir_boson_s_power: the branch taken after the lock, then one step for
\* each packager call that returns
flir_boson_s_power(t) ==
    LET l == th[t] IN
    /\ l.fn = "s_power"
    /\ \/ /\ l.pc = "lock"
          /\ Locked(t, [l EXCEPT !.pc =
                          IF l.arg.on /\ ~sensor.powered THEN "pw_off"
                          ELSE IF ~l.arg.on /\ sensor.powered /\ sensor.streaming
                               THEN "pd_off" ELSE "unlock"])
          /\ UNCHANGED << sensor, configured >>
       \/ /\ l.pc \in PowerSites
          /\ l.cmd # NoCmd
          /\ \E r \in DispatchResults, v \in MipiStates :
               LET a == Answered(l, r) IN
               /\ configured' = Configure(configured, l.cmd, r)
               /\ CASE l.pc \in { "pw_off", "pw_type", "pw_format", "pw_iface" } ->
                         LET next == CASE l.pc = "pw_off" -> "pw_type"
                                       [] l.pc = "pw_type" -> "pw_format"
                                       [] l.pc = "pw_format" -> "pw_iface"
                                       [] OTHER -> "pw_get"
                         IN  /\ th' = [th EXCEPT ![t] = PowerOnStep(a, r, next).l]
                             /\ sensor' = [sensor EXCEPT
                                             !.powered = PowerOnStep(a, r, next).powered]
                    [] l.pc = "pw_get" ->
                         \* the value read goes to sensor->mipi_state
                         /\ th' = [th EXCEPT ![t] = [a EXCEPT !.ret = r, !.pc = "unlock"]]
                         /\ sensor' = IF r = R_SUCCESS
                                      THEN [sensor EXCEPT !.mipi_state = v] ELSE sensor
                    [] OTHER ->
                         \* power down while streaming: a failure is logged
                         /\ th' = [th EXCEPT ![t] = [a EXCEPT !.ret = r, !.pc = "unlock"]]
                         /\ sensor' = [sensor EXCEPT !.streaming = PowerDownStreaming(r)]
          /\ UNCHANGED lock
    /\ UNCHANGED ops
    /\ UNCHANGED << dispVars, frameVars, extVars >>

\* the locals of flir_boson_s_stream_priv and the flag once
\* SET_MIPI_STATE(ACTIVE) returned r: ret |= r, goto unlock unless ret is
\* R_SUCCESS, streaming = true otherwise
StartStreaming_Unchecked(a, r) ==
    [l |-> [a EXCEPT !.ret = BitOr(@, r), !.pc = "st_get"], streaming |-> TRUE]

StartStreaming(a, r) ==
    IF BitOr(a.ret, r) # R_SUCCESS
    THEN [l |-> [a EXCEPT !.ret = BitOr(@, r), !.pc = "unlock"],
          streaming |-> sensor.streaming]
    ELSE [l |-> [a EXCEPT !.ret = BitOr(@, r), !.pc = "st_get"], streaming |-> TRUE]

\* StreamBranch without the tests of sensor->streaming
StreamBranch_Unconditional(enable) == IF enable THEN "st_lane" ELSE "st_off"

\* the branch flir_boson_s_stream_priv takes after mutex_lock:
\* if (enable && !sensor->streaming) ... else if (!enable && sensor->streaming)
\* ..., and straight to unlock otherwise
StreamBranch(enable) ==
    IF enable /\ ~sensor.streaming THEN "st_lane"
    ELSE IF ~enable /\ sensor.streaming THEN "st_off"
    ELSE "unlock"

\* flir_boson_s_stream_priv (flir_boson_s_stream only calls it)
flir_boson_s_stream_priv(t) ==
    LET l == th[t] IN
    /\ l.fn = "s_stream"
    /\ \/ /\ l.pc = "lock"
          /\ Locked(t, [l EXCEPT !.pc = StreamBranch(l.arg.enable)])
          /\ UNCHANGED << sensor, configured >>
       \/ /\ l.pc \in StreamSites
          /\ l.cmd # NoCmd
          /\ \E r \in DispatchResults :
               LET a == Answered(l, r) IN
               /\ configured' = Configure(configured, l.cmd, r)
               /\ CASE l.pc = "st_lane" ->
                         /\ th' = [th EXCEPT ![t] = [a EXCEPT !.ret = r, !.pc = "st_active"]]
                         /\ UNCHANGED sensor
                    [] l.pc = "st_active" ->
                         /\ th' = [th EXCEPT ![t] = StartStreaming(a, r).l]
                         /\ sensor' = [sensor EXCEPT !.streaming = StartStreaming(a, r).streaming]
                    [] l.pc = "st_get" ->
                         \* the value read goes to the local u32 state
                         /\ th' = [th EXCEPT ![t] = [a EXCEPT !.ret = r, !.pc = "unlock"]]
                         /\ UNCHANGED sensor
                    [] OTHER ->
                         /\ th' = [th EXCEPT ![t] = [a EXCEPT !.ret = r, !.pc = "unlock"]]
                         /\ sensor' = IF r # R_SUCCESS THEN sensor
                                      ELSE [sensor EXCEPT !.streaming = FALSE]
          /\ UNCHANGED lock
    /\ UNCHANGED ops
    /\ UNCHANGED << dispVars, frameVars, extVars >>

\* where flir_boson_set_fmt goes on once flir_get_agc_paramaters returned
AfterAgc(a) ==
    IF flir_boson_formats[NewFormat(a)].code = "Y14_1X14" /\ enable_radiometry
    THEN "sf_gain" ELSE "sf_off2"

\* flir_get_agc_paramaters as called by flir_boson_set_fmt: ret = the first
\* read, ret &= each of the others; flr_result_to_errno(ret) or ret goes to
\* the caller's ret
flir_get_agc_paramaters(t) ==
    LET l == th[t] IN
    /\ l.fn = "set_fmt"
    /\ l.pc \in AgcSites
    /\ l.cmd # NoCmd
    /\ \E r \in DispatchResults :
         LET a   == Answered(l, r)
             acc == IF l.n = 1 THEN r ELSE BitAnd(l.agc, r)
         IN  th' = [th EXCEPT ![t] =
                      IF l.n < AgcReads
                      THEN [a EXCEPT !.agc = acc, !.n = l.n + 1]
                      ELSE [a EXCEPT !.agc = R_SUCCESS, !.n = 0,
                                     !.ret = IF acc # R_SUCCESS
                                             THEN flr_result_to_errno(acc) ELSE acc,
                                     !.pc = AfterAgc(l.arg)]]
    /\ UNCHANGED << lock, sensor, configured, ops >>
    /\ UNCHANGED << dispVars, frameVars, extVars >>

\* the locals of flir_boson_set_fmt once a command of the radiometry setup
\* (gain mode, AGC mode, FFC) returned r: the failure is logged, ret is the
\* errno, and the function goes on (goto unlock is commented out)
AfterRadiometry(a, r, next) ==
    [a EXCEPT !.ret = IF r # R_SUCCESS THEN flr_result_to_errno(r) ELSE r,
              !.pc = next]

\* AfterChecked without the goto: a failed command is logged and the
\* function carries on with the next command
AfterChecked_NoGoto(a, r, next) == AfterRadiometry(a, r, next)

\* the locals of flir_boson_set_fmt once the first SET_MIPI_STATE(OFF), the
\* DVO type or the output format command returned r: on a failure ret is the
\* errno and the function leaves through unlock
AfterChecked(a, r, next) ==
    IF r # R_SUCCESS
    THEN [a EXCEPT !.ret = flr_result_to_errno(r), !.pc = "unlock"]
    ELSE [a EXCEPT !.ret = r, !.pc = next]

\* flir_boson_set_fmt with an ACTIVE format on pad 0
flir_boson_set_fmt(t) ==
    LET l == th[t] IN
    /\ l.fn = "set_fmt"
    /\ \/ /\ l.pc = "lock"
          /\ Locked(t, IF sensor.streaming
                       THEN [l EXCEPT !.ret = 0 - EBUSY, !.pc = "unlock"]
                       ELSE [l EXCEPT !.pc = "sf_off"])
          /\ UNCHANGED << sensor, configured >>
       \/ /\ l.pc \in FormatSites
          /\ l.cmd # NoCmd
          /\ \E r \in DispatchResults :
               LET a  == Answered(l, r)
                   failure == [a EXCEPT !.ret = flr_result_to_errno(r), !.pc = "unlock"]
               IN
               /\ configured' = Configure(configured, l.cmd, r)
               /\ CASE l.pc \in { "sf_off", "sf_type", "sf_format" } ->
                         /\ th' = [th EXCEPT ![t] =
                                     LET b == AfterChecked(a, r,
                                                 CASE l.pc = "sf_off" -> "sf_tel1"
                                                   [] l.pc = "sf_type" -> "sf_format"
                                                   [] OTHER -> "sf_agc")
                                     IN  [b EXCEPT !.n = IF b.pc = "sf_agc" THEN 1 ELSE 0]]
                         /\ UNCHANGED sensor
                    [] l.pc \in { "sf_tel1", "sf_tel2", "sf_tel3" } ->
                         \* ret = ...; ret = ...; ret = ...: no test
                         /\ th' = [th EXCEPT ![t] =
                                     [a EXCEPT !.ret = r,
                                               !.pc = CASE l.pc = "sf_tel1" /\ l.arg.height >= 512
                                                             -> "sf_tel2"
                                                        [] l.pc = "sf_tel2" -> "sf_tel3"
                                                        [] OTHER -> "sf_type"]]
                         /\ UNCHANGED sensor
                    [] l.pc \in { "sf_gain", "sf_agcmode", "sf_ffc" } ->
                         /\ th' = [th EXCEPT ![t] =
                                     AfterRadiometry(a, r,
                                        CASE l.pc = "sf_gain" -> "sf_agcmode"
                                          [] l.pc = "sf_agcmode" -> "sf_ffc"
                                          [] OTHER -> "sf_off2")]
                         /\ UNCHANGED sensor
                    [] l.pc = "sf_off2" ->
                         \* the value returned is not stored
                         /\ th' = [th EXCEPT ![t] = [a EXCEPT !.pc = "sf_mux"]]
                         /\ UNCHANGED sensor
                    [] OTHER ->
                         IF r # R_SUCCESS
                         THEN /\ th' = [th EXCEPT ![t] = failure]
                              /\ UNCHANGED sensor
                         ELSE /\ th' = [th EXCEPT ![t] = [a EXCEPT !.ret = r, !.pc = "unlock"]]
                              /\ sensor' =
                                   [sensor EXCEPT
                                      !.current_format = NewFormat(l.arg),
                                      !.current_framesize = NewFramesize(l.arg),
                                      !.fmt = FmtOf(NewFormat(l.arg), NewFramesize(l.arg))]
          /\ UNCHANGED lock
    /\ UNCHANGED ops
    /\ UNCHANGED << dispVars, frameVars, extVars >>

\* the same return statements were FLR_RESULT a signed type: ret > 0 is
\* false for a stored errno
ReturnOf_SignedResult(fn, r) ==
    IF r = R_SUCCESS THEN 0
    ELSE IF fn = "set_fmt"
         THEN (IF r > 0 THEN r ELSE flr_result_to_errno(r))
         ELSE flr_result_to_errno(r)

\* the int a subdevice operation returns from its label unlock
ReturnOf(fn, r) ==
    IF r = R_SUCCESS THEN 0
    ELSE IF fn = "set_fmt"
         \* ret > 0 ? ret : flr_result_to_errno(ret), on an unsigned ret
         THEN (IF r # 0 THEN r ELSE flr_result_to_errno(r))
         ELSE flr_result_to_errno(r)

\* unlock: mutex_unlock(&sensor->lock); return ...
Unlock(t) ==
    /\ th[t].pc = "unlock"
    /\ lock' = "free"
    /\ th' = [th EXCEPT ![t] = IdleThread]
    /\ UNCHANGED << sensor, configured, ops >>
    /\ UNCHANGED << dispVars, frameVars, extVars >>

\* a return before mutex_lock
ReturnEarly(t) ==
    /\ th[t].pc = "return"
    /\ th' = [th EXCEPT ![t] = IdleThread]
    /\ UNCHANGED << lock, sensor, configured, ops >>
    /\ UNCHANGED << dispVars, frameVars, extVars >>

\* sensor->mipi_state = FLR_DVO_MIPI_STATE_OFF after the SET_MIPI_STATE(OFF)
\* of flir_boson_probe returned r
ProbeMipiState(r) == FLIR_MIPI_STATE_OFF

\* flir_boson_probe after v4l2_async_register_subdev_sensor: the serial
\* number is read, the MIPI output is switched off; neither failure stops
\* the probe, and sensor->lock is not taken
flir_boson_probe ==
    LET l == th["probe"] IN
    /\ l.pc \in ProbeSites
    /\ l.cmd # NoCmd
    /\ \E r \in DispatchResults :
         LET a == Answered(l, r) IN
         /\ configured' = Configure(configured, l.cmd, r)
         /\ IF l.pc = "pr_sn"
            THEN /\ th' = [th EXCEPT !["probe"] = [a EXCEPT !.pc = "pr_off"]]
                 /\ UNCHANGED sensor
            ELSE /\ th' = [th EXCEPT !["probe"] = [a EXCEPT !.pc = "pr_done"]]
                 /\ sensor' = [sensor EXCEPT !.mipi_state = ProbeMipiState(r)]
    /\ UNCHANGED << lock, ops >>
    /\ UNCHANGED << dispVars, frameVars, extVars >>

CoreNext ==
    \/ \E t \in Callers : Enter(t)
    \/ \E t \in Callers : flir_boson_s_power(t)
    \/ \E t \in Callers : flir_boson_s_stream_priv(t)
    \/ \E t \in Callers : flir_boson_set_fmt(t)
    \/ \E t \in Callers : flir_get_agc_paramaters(t)
    \/ \E t \in Threads : PackagerCall(t)
    \/ \E t \in Callers : Unlock(t)
    \/ \E t \in Callers : ReturnEarly(t)
    \/ flir_boson_probe

CoreSpec == Init /\ [][CoreNext]_vars

\* the sensor once flir_boson_s_power(sd, 1) and flir_boson_s_stream(sd, 1)
\* have both returned 0: the power-on sequence configured type, format and
\* interface, powered and streaming are set, and mipi_state is what the
\* DVO_GETMIPISTATE read of the power-on gave (or still OFF if it failed)
StreamingInit ==
    /\ InitTransport
    /\ InitExt
    /\ lock = "free"
    /\ sensor \in { [ProbedSensor EXCEPT !.powered = TRUE, !.streaming = TRUE,
                                          !.mipi_state = v] : v \in MipiStates }
    /\ th = ProbedThreads
    /\ configured = { "type", "format", "interface" }
    /\ ops = 0

\* the subdevice operations called on a powered, streaming sensor
StreamingSpec == StreamingInit /\ [][CoreNext]_vars

(* ------------------------------------------------------------------ *)
(* The conversion of result codes on its own                          *)
(* ------------------------------------------------------------------ *)
\* the FLR_RESULT values handed to the conversion: the codes up to MaxCode
\* (every enumerator of ReturnCodes.h up to FLR_SDIO_XX_ERROR and the values
\* between them), MAX_ERR_CODE, and the errnos that the callers store in a
\* FLR_RESULT before they convert it once more
ResultCodes ==
    (0 .. MaxCode) \cup { 0 - 1 }
    \cup { 0 - e : e \in { EIO, EINVAL, EBUSY, ENODEV, ENOSPC, ERANGE, EPROTO, EREMOTEIO } }

\* flr_result_to_errno(code) and boson_result_to_errno(code) are called
ConvertResult ==
    /\ \E code \in ResultCodes :
         conv' = [code |-> code,
                  v4l2 |-> flr_result_to_errno(code),
                  vvcam |-> boson_result_to_errno(code),
                  done |-> TRUE]
    /\ UNCHANGED << dispVars, frameVars, coreVars, cd, lg, vv >>

ErrnoNext == ConvertResult

ErrnoSpec == Init /\ [][ErrnoNext]_vars

(* ------------------------------------------------------------------ *)
(* CLIENT_dispatcher (src/flir_boson_v4l2/Client_Dispatcher.c)        *)
(* ------------------------------------------------------------------ *)
\* the sequence numbers and function ids of the calls and of the frames,
\* the *receiveBytes the packagers pass (flir_boson_send_int_cmd passes 1,
\* flir_boson_get_int_val 4), the statuses a frame carries and the payload
\* lengths its header declares
ClientSeqs == { 1, 2 }
ClientFns == { BOSON_GETCAMERASN, DVO_SET_MIPI_STATE }
ExpectedLens == { 0, 1, 4 }
ClientStatuses == { R_SUCCESS, FLR_CAM_BUSY }
DeclaredLens == { 4, 12, 13, 16, 20 }
ClientFrames ==
    [len : DeclaredLens, seq : ClientSeqs, fn : ClientFns, status : ClientStatuses]

\* a packager calls CLIENT_dispatcher(sensor, seqNum, fnID, ..., &receiveBytes)
CLIENT_dispatcher_Call ==
    /\ cd.pc = "idle"
    /\ \E seq \in ClientSeqs, fn \in ClientFns, n \in ExpectedLens :
         cd' = [ClientIdle EXCEPT !.pc = "tx", !.seqNum = seq, !.fnID = fn,
                                  !.expected = n, !.receiveBytes = n]
    /\ UNCHANGED << dispVars, frameVars, coreVars, conv, lg, vv >>

\* CLIENT_dispatcher_Tx: the header and the data are written as one frame;
\* a failed I2C_writeFrame ends the call
CLIENT_dispatcher_Tx ==
    /\ cd.pc = "tx"
    /\ \E ok \in BOOLEAN :
         cd' = IF ok
               \* *receiveBytes += 12 at the head of CLIENT_dispatcher_Rx
               THEN [cd EXCEPT !.pc = "rx1", !.receiveBytes = @ + 12]
               ELSE [cd EXCEPT !.pc = "done", !.res = FLR_COMM_ERROR_WRITING_COMM]
    /\ UNCHANGED << dispVars, frameVars, coreVars, conv, lg, vv >>

\* I2C_readFrame as CLIENT_dispatcher_Rx calls it (a second time when the
\* first frame had fewer than 12 bytes): a transfer fails, or the frame head
\* is found, the length the header declares is read into receivePayload and
\* *readBytes is set to it
I2C_readFrame ==
    /\ cd.pc \in { "rx1", "rx2" }
    /\ \/ cd' = [cd EXCEPT !.pc = "done", !.res = FLR_COMM_ERROR_READING_COMM]
       \/ \E f \in ClientFrames :
            cd' = [cd EXCEPT !.frame = f, !.receiveBytes = f.len,
                             !.pc = IF f.len < 12 /\ cd.pc = "rx1" THEN "rx2"
                                    ELSE "parse"]
    /\ UNCHANGED << dispVars, frameVars, coreVars, conv, lg, vv >>

\* CLIENT_dispatcher_Rx after its reads: fewer than 12 bytes is a read
\* error; the sequence and the id go to the caller; a status that is not
\* R_SUCCESS is returned; otherwise *receiveBytes -= 12 and that many bytes
\* are copied to receiveData
CLIENT_dispatcher_Rx ==
    /\ cd.pc = "parse"
    /\ cd' = IF cd.receiveBytes < 12
             THEN [cd EXCEPT !.pc = "done", !.res = FLR_COMM_ERROR_READING_COMM]
             ELSE IF cd.frame.status # R_SUCCESS
             THEN [cd EXCEPT !.pc = "done", !.res = cd.frame.status,
                             !.returnSequence = cd.frame.seq, !.cmdID = cd.frame.fn]
             ELSE [cd EXCEPT !.pc = "compare",
                             !.returnSequence = cd.frame.seq, !.cmdID = cd.frame.fn,
                             !.receiveBytes = @ - 12,
                             !.copied = cd.receiveBytes - 12]
    /\ UNCHANGED << dispVars, frameVars, coreVars, conv, lg, vv >>

\* CLIENT_dispatcher once CLIENT_dispatcher_Rx returned R_SUCCESS:
\* returnSequence ^ seqNum, then cmdID ^ fnID
CLIENT_dispatcher ==
    /\ cd.pc = "compare"
    /\ cd' = [cd EXCEPT !.pc = "done",
                        !.res = IF cd.returnSequence # cd.seqNum
                                THEN R_SDK_DSPCH_SEQUENCE_MISMATCH
                                ELSE IF cd.cmdID # cd.fnID
                                THEN R_SDK_DSPCH_ID_MISMATCH
                                ELSE R_SUCCESS]
    /\ UNCHANGED << dispVars, frameVars, coreVars, conv, lg, vv >>

\* the packager goes on with the result
CLIENT_dispatcher_Return ==
    /\ cd.pc = "done"
    /\ cd' = ClientIdle
    /\ UNCHANGED << dispVars, frameVars, coreVars, conv, lg, vv >>

ClientNext ==
    \/ CLIENT_dispatcher_Call
    \/ CLIENT_dispatcher_Tx
    \/ I2C_readFrame
    \/ CLIENT_dispatcher_Rx
    \/ CLIENT_dispatcher
    \/ CLIENT_dispatcher_Return

ClientSpec == Init /\ [][ClientNext]_vars

(* ------------------------------------------------------------------ *)
(* The legacy core (second driver of src/unnamed/part_003)            *)
(* ------------------------------------------------------------------ *)
\* the calls made on the subdevice: s_power and s_stream with 0 or 1, and
\* the ioctl with each of its commands (and one it does not know)
LegacyCalls ==
    { [fn |-> f, cmd |-> "none", on |-> b] : f \in { "s_power", "s_stream" }, b \in BOOLEAN }
    \cup { [fn |-> "ioctl", cmd |-> c, on |-> b] :
              c \in { "FSLP_CMD", "POWER_STATE", "GET_STATUS", "unknown" }, b \in BOOLEAN }

\* what a command sent by the legacy core returns
LegacyResults == { 0, 0 - EIO }

\* the places where a thread calls mutex_lock(&sensor->lock) and
\* mutex_unlock(&sensor->lock)
LegacyLockSites == { "sp_lock", "ss_lock", "io_lock" }
LegacyUnlockSites == { "sp_unlock", "ss_unlock", "io_unlock" }

\* a thread calls an operation.  flir_boson_ioctl reads sensor->powered
\* before it takes the lock and returns -ENODEV when it is false.
LegacyEnter(t) ==
    /\ lg.th[t].pc = "idle"
    /\ \E c \in LegacyCalls :
         lg' = [lg EXCEPT !.th[t] =
                  [LegacyIdle EXCEPT
                     !.fn = c.fn, !.cmd = c.cmd, !.on = c.on,
                     !.pc = CASE c.fn = "s_power" -> "sp_lock"
                              [] c.fn = "s_stream" -> "ss_lock"
                              [] OTHER -> IF lg.powered THEN "io_lock" ELSE "return",
                     !.ret = IF c.fn = "ioctl" /\ ~lg.powered THEN 0 - ENODEV ELSE 0]]
    /\ UNCHANGED << dispVars, frameVars, coreVars, conv, cd, vv >>

\* mutex_lock(&sensor->lock): the thread goes on once the mutex is free.
\* A kernel mutex is not recursive: its owner waits like any other thread.
legacy_mutex_lock(t) ==
    /\ lg.th[t].pc \in LegacyLockSites
    /\ lg.lock = "free"
    /\ lg' = [lg EXCEPT !.lock = t,
                        !.th[t].pc = CASE lg.th[t].pc = "sp_lock" -> "sp_body"
                                       [] lg.th[t].pc = "ss_lock" -> "ss_body"
                                       [] OTHER -> "io_body"]
    /\ UNCHANGED << dispVars, frameVars, coreVars, conv, cd, vv >>

\* flir_boson_s_power of the legacy core between its mutex_lock and its
\* label unlock
legacy_s_power(t) ==
    /\ lg.th[t].pc = "sp_body"
    /\ \E r \in LegacyResults :
         lg' = IF lg.th[t].on /\ ~lg.powered
               THEN IF r # 0
                    THEN [lg EXCEPT !.th[t].ret = r, !.th[t].pc = "sp_unlock"]
                    ELSE [lg EXCEPT !.powered = TRUE,
                                    !.mipi_state = FLIR_MIPI_STATE_OFF,
                                    !.th[t].ret = 0, !.th[t].pc = "sp_unlock"]
               ELSE IF ~lg.th[t].on /\ lg.powered
               THEN [lg EXCEPT !.powered = FALSE,
                               !.streaming = FALSE,
                               !.mipi_state = IF lg.streaming /\ r = 0
                                              THEN FLIR_MIPI_STATE_OFF ELSE @,
                               !.th[t].ret = 0, !.th[t].pc = "sp_unlock"]
               ELSE [lg EXCEPT !.th[t].ret = 0, !.th[t].pc = "sp_unlock"]
    /\ UNCHANGED << dispVars, frameVars, coreVars, conv, cd, vv >>

\* flir_boson_s_stream of the legacy core between its mutex_lock and its
\* label unlock
legacy_s_stream(t) ==
    /\ lg.th[t].pc = "ss_body"
    /\ \E r \in LegacyResults :
         lg' = IF ~lg.powered
               THEN [lg EXCEPT !.th[t].ret = 0 - ENODEV, !.th[t].pc = "ss_unlock"]
               ELSE IF lg.th[t].on /\ ~lg.streaming
               THEN IF r # 0
                    THEN [lg EXCEPT !.th[t].ret = r, !.th[t].pc = "ss_unlock"]
                    ELSE [lg EXCEPT !.streaming = TRUE,
                                    !.mipi_state = FLIR_MIPI_STATE_ACTIVE,
                                    !.th[t].ret = 0, !.th[t].pc = "ss_unlock"]
               ELSE IF ~lg.th[t].on /\ lg.streaming
               THEN IF r # 0
                    THEN [lg EXCEPT !.th[t].ret = r, !.th[t].pc = "ss_unlock"]
                    ELSE [lg EXCEPT !.streaming = FALSE,
                                    !.mipi_state = FLIR_MIPI_STATE_OFF,
                                    !.th[t].ret = 0, !.th[t].pc = "ss_unlock"]
               ELSE [lg EXCEPT !.th[t].ret = 0, !.th[t].pc = "ss_unlock"]
    /\ UNCHANGED << dispVars, frameVars, coreVars, conv, cd, vv >>

\* the switch of flir_boson_ioctl, entered with sensor->lock held.
\* POWER_STATE calls flir_boson_s_power(sd, *(int *)arg), whose first
\* statement after the dev_dbg is mutex_lock(&sensor->lock).
flir_boson_ioctl(t) ==
    /\ lg.th[t].pc = "io_body"
    /\ \E r \in LegacyResults :
         lg' = CASE lg.th[t].cmd = "FSLP_CMD" ->
                      [lg EXCEPT !.th[t].ret = r, !.th[t].pc = "io_unlock"]
                 [] lg.th[t].cmd = "POWER_STATE" ->
                      [lg EXCEPT !.th[t].nested = TRUE, !.th[t].pc = "sp_lock"]
                 [] lg.th[t].cmd = "GET_STATUS" ->
                      [lg EXCEPT !.th[t].status =
                                     (IF lg.powered THEN 1 ELSE 0)
                                     + (IF lg.streaming THEN 2 ELSE 0)
                                     + 4 * lg.mipi_state,
                                 !.th[t].pc = "io_unlock"]
                 [] OTHER ->
                      [lg EXCEPT !.th[t].ret = 0 - ENOTTY, !.th[t].pc = "io_unlock"]
    /\ UNCHANGED << dispVars, frameVars, coreVars, conv, cd, vv >>

\* mutex_unlock(&sensor->lock) and the return that follows it; a
\* flir_boson_s_power called by the ioctl returns into the ioctl
legacy_mutex_unlock(t) ==
    /\ lg.th[t].pc \in LegacyUnlockSites
    /\ lg' = [lg EXCEPT !.lock = "free",
                        !.th[t].pc = IF lg.th[t].pc = "sp_unlock" /\ lg.th[t].nested
                                     THEN "io_unlock" ELSE "return"]
    /\ UNCHANGED << dispVars, frameVars, coreVars, conv, cd, vv >>

\* the operation has returned to its caller
LegacyReturn(t) ==
    /\ lg.th[t].pc = "return"
    /\ lg' = [lg EXCEPT !.th[t] = LegacyIdle]
    /\ UNCHANGED << dispVars, frameVars, coreVars, conv, cd, vv >>

LegacyNext ==
    \/ \E t \in LegacyThreads : LegacyEnter(t)
    \/ \E t \in LegacyThreads : legacy_mutex_lock(t)
    \/ \E t \in LegacyThreads : legacy_s_power(t)
    \/ \E t \in LegacyThreads : legacy_s_stream(t)
    \/ \E t \in LegacyThreads : flir_boson_ioctl(t)
    \/ \E t \in LegacyThreads : legacy_mutex_unlock(t)
    \/ \E t \in LegacyThreads : LegacyReturn(t)

LegacySpec == Init /\ [][LegacyNext]_vars

(* ------------------------------------------------------------------ *)
(* The VVCAM core (src/flir_boson_vvcam/flir-boson-core.c)            *)
(* ------------------------------------------------------------------ *)
\* the calls made on the subdevice
VvcamCalls ==
    { [fn |-> f, cmd |-> "none", on |-> b] : f \in { "s_power", "s_stream" }, b \in BOOLEAN }
    \cup { [fn |-> "set_fmt", cmd |-> "none", on |-> b] : b \in BOOLEAN }
    \cup { [fn |-> "priv_ioctl", cmd |-> c, on |-> b] :
              c \in { "S_STREAM", "S_SENSOR_MODE", "G_CHIP_ID" }, b \in BOOLEAN }

\* the commands of boson_configure_raw14 in the order of the code
ConfigureSites ==
    << "cfg_off", "cfg_type", "cfg_format", "cfg_ir16", "cfg_mux", "cfg_iface", "cfg_lane" >>
MipiSites == { "active", "off", "pd_off" }

\* a thread calls an operation; boson_set_fmt returns -EINVAL for a pad
\* other than 0 before it takes the lock (on stands for fmt->pad = 0 there)
VvcamEnter(t) ==
    /\ vv.th[t].pc = "idle"
    /\ \E c \in VvcamCalls :
         vv' = [vv EXCEPT !.th[t] =
                  [VvcamIdle EXCEPT
                     !.fn = c.fn, !.cmd = c.cmd, !.on = c.on,
                     !.pc = IF c.fn = "set_fmt" /\ ~c.on THEN "return" ELSE "lock",
                     !.ret = IF c.fn = "set_fmt" /\ ~c.on THEN 0 - EINVAL ELSE 0]]
    /\ UNCHANGED << dispVars, frameVars, coreVars, conv, cd, lg >>

\* mutex_lock(&sensor->lock)
vvcam_mutex_lock(t) ==
    /\ vv.th[t].pc = "lock"
    /\ vv.lock = "free"
    /\ vv' = [vv EXCEPT !.lock = t, !.th[t].pc = "body"]
    /\ UNCHANGED << dispVars, frameVars, coreVars, conv, cd, lg >>

\* boson_s_power up to its call of boson_set_mipi_state or its unlock
boson_s_power(t) ==
    /\ vv.th[t].pc = "body" /\ vv.th[t].fn = "s_power"
    /\ vv' = IF vv.th[t].on /\ ~vv.powered
             THEN [vv EXCEPT !.powered = TRUE, !.mode_change = TRUE,
                             !.th[t].pc = "unlock"]
             ELSE IF ~vv.th[t].on /\ vv.powered
             THEN [vv EXCEPT !.th[t].pc = "pd_off"]
             ELSE [vv EXCEPT !.th[t].pc = "unlock"]
    /\ UNCHANGED << dispVars, frameVars, coreVars, conv, cd, lg >>

\* boson_s_stream calls boson_stream_ctl(sensor, enable)
boson_s_stream(t) ==
    /\ vv.th[t].pc = "body" /\ vv.th[t].fn = "s_stream"
    /\ vv' = [vv EXCEPT !.th[t].pc = "stream_ctl"]
    /\ UNCHANGED << dispVars, frameVars, coreVars, conv, cd, lg >>

\* boson_set_fmt under the lock
boson_set_fmt(t) ==
    /\ vv.th[t].pc = "body" /\ vv.th[t].fn = "set_fmt"
    /\ vv' = [vv EXCEPT !.mode_change = TRUE, !.th[t].pc = "unlock"]
    /\ UNCHANGED << dispVars, frameVars, coreVars, conv, cd, lg >>

\* the switch of boson_priv_ioctl: VVSENSORIOC_S_STREAM calls
\* boson_stream_ctl(sensor, !!value) unless copy_from_user fails,
\* VVSENSORIOC_S_SENSOR_MODE sets mode_change unless the copy or the index
\* is bad, and the other commands send nothing
boson_priv_ioctl(t) ==
    /\ vv.th[t].pc = "body" /\ vv.th[t].fn = "priv_ioctl"
    /\ \E ok \in BOOLEAN :
         vv' = CASE vv.th[t].cmd = "S_STREAM" /\ ok ->
                      [vv EXCEPT !.th[t].pc = "stream_ctl"]
                 [] vv.th[t].cmd = "S_SENSOR_MODE" /\ ok ->
                      [vv EXCEPT !.mode_change = TRUE, !.th[t].pc = "unlock"]
                 [] OTHER ->
                      [vv EXCEPT !.th[t].ret = IF ok THEN 0 ELSE 0 - EINVAL,
                                 !.th[t].pc = "unlock"]
    /\ UNCHANGED << dispVars, frameVars, coreVars, conv, cd, lg >>

\* boson_stream_ctl up to its first command
boson_stream_ctl(t) ==
    /\ vv.th[t].pc = "stream_ctl"
    /\ vv' = [vv EXCEPT !.th[t].pc = IF vv.th[t].on
                                     THEN (IF vv.mode_change THEN "cfg_off" ELSE "active")
                                     ELSE "off"]
    /\ UNCHANGED << dispVars, frameVars, coreVars, conv, cd, lg >>

\* one command of boson_configure_raw14 returns r: a failure returns its
\* errno through boson_stream_ctl; the SET_MIPI_STATE(OFF) is sent with
\* flir_boson_send_int_cmd, not with boson_set_mipi_state; after the last
\* command mode_change = false and boson_stream_ctl goes on
boson_configure_raw14(t) ==
    /\ \E i \in 1 .. Len(ConfigureSites) :
         /\ vv.th[t].pc = ConfigureSites[i]
         /\ \E r \in DispatchResults :
              vv' = IF r # R_SUCCESS
                    THEN [vv EXCEPT !.th[t].ret = boson_result_to_errno(r),
                                    !.th[t].pc = "unlock"]
                    ELSE [vv EXCEPT !.acked = IF i = 1 THEN FLIR_MIPI_STATE_OFF ELSE @,
                                    !.mode_change = IF i = Len(ConfigureSites)
                                                    THEN FALSE ELSE @,
                                    !.th[t].pc = IF i = Len(ConfigureSites)
                                                 THEN "active" ELSE ConfigureSites[i + 1]]
    /\ UNCHANGED << dispVars, frameVars, coreVars, conv, cd, lg >>

\* boson_set_mipi_state(sensor, state) returns, and what its caller does
\* with the result: boson_stream_ctl sets streaming after a success,
\* boson_s_power clears powered and streaming whatever the result
boson_set_mipi_state(t) ==
    /\ vv.th[t].pc \in MipiSites
    /\ \E r \in DispatchResults :
         LET state == IF vv.th[t].pc = "active" THEN FLIR_MIPI_STATE_ACTIVE
                      ELSE FLIR_MIPI_STATE_OFF
             ok == r = R_SUCCESS
         IN  vv' = [vv EXCEPT
                      !.mipi_state = IF ok THEN state ELSE @,
                      !.acked = IF ok THEN state ELSE @,
                      !.streaming = CASE vv.th[t].pc = "pd_off" -> FALSE
                                      [] ok -> (vv.th[t].pc = "active")
                                      [] OTHER -> @,
                      !.powered = IF vv.th[t].pc = "pd_off" THEN FALSE ELSE @,
                      !.th[t].ret = boson_result_to_errno(r),
                      !.th[t].pc = "unlock"]
    /\ UNCHANGED << dispVars, frameVars, coreVars, conv, cd, lg >>

\* mutex_unlock(&sensor->lock); return ret
vvcam_mutex_unlock(t) ==
    /\ vv.th[t].pc = "unlock"
    /\ vv' = [vv EXCEPT !.lock = "free", !.th[t].pc = "return"]
    /\ UNCHANGED << dispVars, frameVars, coreVars, conv, cd, lg >>

\* the operation has returned to its caller
VvcamReturn(t) ==
    /\ vv.th[t].pc = "return"
    /\ vv' = [vv EXCEPT !.th[t] = VvcamIdle]
    /\ UNCHANGED << dispVars, frameVars, coreVars, conv, cd, lg >>

VvcamNext ==
    \/ \E t \in VvcamThreads : VvcamEnter(t)
    \/ \E t \in VvcamThreads : vvcam_mutex_lock(t)
    \/ \E t \in VvcamThreads : boson_s_power(t)
    \/ \E t \in VvcamThreads : boson_s_stream(t)
    \/ \E t \in VvcamThreads : boson_set_fmt(t)
    \/ \E t \in VvcamThreads : boson_priv_ioctl(t)
    \/ \E t \in VvcamThreads : boson_stream_ctl(t)
    \/ \E t \in VvcamThreads : boson_configure_raw14(t)
    \/ \E t \in VvcamThreads : boson_set_mipi_state(t)
    \/ \E t \in VvcamThreads : vvcam_mutex_unlock(t)
    \/ \E t \in VvcamThreads : VvcamReturn(t)

VvcamSpec == Init /\ [][VvcamNext]_vars

(* ------------------------------------------------------------------ *)
(* What a transport exchange was, told from the bus script alone      *)
(* ------------------------------------------------------------------ *)
\* the dispatcher has returned to the packager
Returned == pc = "done"

\* read i of this dispatch, and the last one
Frame(i) == frames[i]
LastFrame == frames[Len(frames)]

\* a frame with the second magic byte in place whose length was read
Framed(f) == f.t.r1 /\ f.t.h1 = FLIR_MAGIC_TOKEN_1 /\ f.t.r2

\* the payload bytes of a frame that reached the host
Delivered(f) == IF Framed(f) /\ f.t.r3 THEN f.t.len ELSE 0

\* both magic bytes were read and are the magic tokens
ValidMagic(f) == f.t.r0 /\ f.t.h0 = FLIR_MAGIC_TOKEN_0 /\ f.t.r1
                 /\ f.t.h1 = FLIR_MAGIC_TOKEN_1

\* the frame carries an echoed sequence number / function id / a status
HasSeq(f) == Delivered(f) >= 4
HasFn(f) == Delivered(f) >= 8
HasStatus(f) == Delivered(f) >= 12

EchoesSeq(f, seq) == HasSeq(f) /\ f.t.seq = seq
StaleSeq(f, seq) == HasSeq(f) /\ f.t.seq # seq
EchoesFn(f, fn) == HasFn(f) /\ f.t.fn = fn
WrongFn(f, fn) == HasFn(f) /\ f.t.fn # fn

\* the data bytes that follow the 12-byte header in a delivered frame
DataOf(f) ==
    LET all == CamBE(f.t.data) \o CamBE(Second(f.t.data))
        n == Delivered(f) - 12
    IN  SubSeq(all, 1, IF n < 0 THEN 0 ELSE IF n > Len(all) THEN Len(all) ELSE n)

(* ------------------------------------------------------------------ *)
(* C1                                                                 *)
(* ------------------------------------------------------------------ *)
\* C1: the dispatcher returns R_SUCCESS only when a response frame read during
\* this call echoes the sequence sent, echoes the function id sent and
\* carries status 0.
C1_SuccessOnlyForMatchingResponse ==
    (Returned /\ Len(wire) = 1 /\ ret = U(R_SUCCESS)) =>
        \E i \in 1..Len(frames) :
            /\ EchoesSeq(Frame(i), seq_num)
            /\ EchoesFn(Frame(i), fn_id)
            /\ HasStatus(Frame(i)) /\ Frame(i).t.st = U(R_SUCCESS)

(* ------------------------------------------------------------------ *)
(* C2                                                                 *)
(* ------------------------------------------------------------------ *)
\* C2: when the first response echoes a sequence other than the one sent, the
\* dispatcher reads a response frame once more; when the second one is stale
\* too it returns R_SDK_DSPCH_SEQUENCE_MISMATCH; never are more than two
\* response frames read for one dispatch.
C2_RetryExactlyOnce ==
    /\ Len(frames) <= 2
    /\ (Len(frames) >= 1 /\ StaleSeq(Frame(1), seq_num)) =>
          \/ Len(frames) = 1 /\ pc = "read" /\ retry = 1
          \/ Len(frames) = 2
    /\ (Returned /\ Len(frames) = 2
          /\ StaleSeq(Frame(1), seq_num) /\ StaleSeq(Frame(2), seq_num)) =>
          ret = U(R_SDK_DSPCH_SEQUENCE_MISMATCH)

C2_Witness ==
    /\ Returned /\ Len(frames) = 2
    /\ StaleSeq(Frame(1), seq_num) /\ StaleSeq(Frame(2), seq_num)
    /\ ret = U(R_SDK_DSPCH_SEQUENCE_MISMATCH)

(* ------------------------------------------------------------------ *)
(* C3                                                                 *)
(* ------------------------------------------------------------------ *)
\* C3 as stated: in every execution of the dispatcher the request frame is
\* written to the transport exactly once.
C3_WrittenExactlyOnce == Returned => Len(wire) = 1

\* C3 as amended: the request frame is written at most once, never on the
\* retry path; every response-frame read happens after that one write, and a
\* dispatch that read a response frame wrote the request exactly once.
C3_WriteOncePrecedesReads ==
    [][ /\ Len(wire') <= 1
        /\ (Len(frames') > Len(frames) => Len(wire) = 1 /\ wire' = wire)
        /\ (Len(wire') > Len(wire) => frames = << >>)
        /\ (pc' = "done" /\ frames' # << >> => Len(wire') = 1) ]_vars

C3_Witness == Returned /\ Len(frames) = 2 /\ Len(wire) = 1

(* ------------------------------------------------------------------ *)
(* C4                                                                 *)
(* ------------------------------------------------------------------ *)
\* C4: a response that echoes the sequence sent and another function id makes
\* the dispatcher return R_SDK_DSPCH_ID_MISMATCH at once: it is the last frame
\* read, and its status field is not read.
C4_IdMismatchImmediate ==
    \A i \in 1..Len(frames) :
        (EchoesSeq(Frame(i), seq_num) /\ WrongFn(Frame(i), fn_id)) =>
            /\ i = Len(frames)
            /\ pc # "read"
            /\ Frame(i).parsed = 2
            /\ Returned => ret = U(R_SDK_DSPCH_ID_MISMATCH)

C4_Witness ==
    /\ Returned /\ Len(frames) = 1
    /\ EchoesSeq(LastFrame, seq_num) /\ WrongFn(LastFrame, fn_id)
    /\ HasStatus(LastFrame) /\ LastFrame.t.st = U(R_SUCCESS)
    /\ ret = U(R_SDK_DSPCH_ID_MISMATCH)

(* ------------------------------------------------------------------ *)
(* C5                                                                 *)
(* ------------------------------------------------------------------ *)
\* C5: a response that echoes the sequence and the function id sent and carries
\* a status S other than 0 makes the dispatcher return S itself, without
\* another read and without copying anything into receive_data.
C5_CameraStatusPreserved ==
    \A i \in 1..Len(frames) :
        (/\ EchoesSeq(Frame(i), seq_num) /\ EchoesFn(Frame(i), fn_id)
         /\ HasStatus(Frame(i)) /\ Frame(i).t.st # U(R_SUCCESS)) =>
            /\ i = Len(frames)
            /\ pc # "read"
            /\ receive_data = << >>
            /\ Returned => ret = Frame(i).t.st

C5_Witness ==
    /\ Returned /\ Len(frames) = 2
    /\ EchoesSeq(LastFrame, seq_num) /\ EchoesFn(LastFrame, fn_id)
    /\ HasStatus(LastFrame) /\ LastFrame.t.st = U(FLR_CAM_BUSY)
    /\ ret = U(FLR_CAM_BUSY)

(* ------------------------------------------------------------------ *)
(* C6                                                                 *)
(* ------------------------------------------------------------------ *)
\* C6: when the response frame received carries fewer than 12 payload bytes no
\* header field is parsed from it; the first such response is followed by one
\* more read, and a second one makes the dispatch fail with a read error.
C6_ShortResponseNeverParsed ==
    /\ \A i \in 1..Len(frames) :
          (Framed(Frame(i)) /\ Frame(i).ret = 0 /\ Delivered(Frame(i)) < 12) =>
              Frame(i).parsed = 0
    /\ (Returned /\ Len(frames) = 2
          /\ Framed(Frame(2)) /\ Frame(2).ret = 0 /\ Delivered(Frame(2)) < 12) =>
              ret = U(FLR_COMM_ERROR_READING_COMM)

(* ------------------------------------------------------------------ *)
(* C7                                                                 *)
(* ------------------------------------------------------------------ *)
\* C7: when the last response frame has valid magic, echoes the sequence and
\* function id sent and has status 0, the dispatcher returns R_SUCCESS and the
\* *receive_bytes bytes in receive_data are the data bytes that follow the
\* 12-byte header of that frame.
C7_DataFromThisResponse ==
    (/\ Returned /\ frames # << >>
     /\ ValidMagic(LastFrame)
     /\ EchoesSeq(LastFrame, seq_num) /\ EchoesFn(LastFrame, fn_id)
     /\ HasStatus(LastFrame) /\ LastFrame.t.st = U(R_SUCCESS)) =>
        /\ ret = U(R_SUCCESS)
        /\ Len(DataOf(LastFrame)) >= receive_bytes
        /\ receive_data = SubSeq(DataOf(LastFrame), 1, receive_bytes)

(* ------------------------------------------------------------------ *)
(* C8                                                                 *)
(* ------------------------------------------------------------------ *)
\* b is a plus 1 modulo 2^32, on the halves of the two values
Successor32(a, b) ==
    \/ a[2] < HALF - 1 /\ b = << a[1], a[2] + 1 >>
    \/ a[2] = HALF - 1 /\ a[1] < HALF - 1 /\ b = << a[1] + 1, 0 >>
    \/ a = << HALF - 1, HALF - 1 >> /\ b = << 0, 0 >>

\* C8: command_count advances by exactly 1 modulo 2^32 at each packager call
\* and at no other step, whatever the dispatch returns, and the sequence a
\* command sends differs from the one the command before it sent.
C8_CounterAdvancesByOne ==
    [][ /\ (calls' # calls =>
              /\ Successor32(command_count, command_count')
              /\ seq_num' = command_count'
              /\ seq_num' # command_count)
        /\ (calls' = calls => command_count' = command_count)
        /\ (pc # "idle" /\ pc' # "idle" => seq_num' = seq_num
                                           /\ seq_num = command_count) ]_vars

C8_Witness ==
    /\ Returned /\ calls = 1
    /\ command_count = << 0, 0 >> /\ seq_num = << 0, 0 >>
    /\ ret # U(R_SUCCESS)

(* ------------------------------------------------------------------ *)
(* C9                                                                 *)
(* ------------------------------------------------------------------ *)
\* the four bytes of a u32, most significant first
BigEndian(v) == << v[1] \div 256, v[1] % 256, v[2] \div 256, v[2] % 256 >>

\* C9: the bytes written for a dispatch with sequence s, function id f and
\* body b are 8E A1, the big-endian u16 12+len(b), big-endian s, big-endian f,
\* FF FF FF FF, then b; SET_MIPI_STATE(ACTIVE) with sequence 3 is written as
\* 8EA1 0010 00000003 00060024 FFFFFFFF 00000002.
C9_RequestWireFormat ==
    \A k \in 1..Len(wire) :
        /\ Len(send_data) <= 244 =>
              wire[k].bytes =
                 << 142, 161, (12 + Len(send_data)) \div 256,
                    (12 + Len(send_data)) % 256 >>
                   \o BigEndian(seq_num) \o BigEndian(fn_id)
                   \o << 255, 255, 255, 255 >> \o send_data
        /\ (seq_num = << 0, 3 >> /\ fn_id = << 6, 36 >> /\ send_data = << 0, 0, 0, 2 >>) =>
              wire[k].bytes = << 142, 161, 0, 16, 0, 0, 0, 3, 0, 6, 0, 36,
                                 255, 255, 255, 255, 0, 0, 0, 2 >>

C9_Witness ==
    /\ Len(wire) = 1
    /\ op = "send_int_cmd"
    /\ wire[1].bytes = << 142, 161, 0, 16, 0, 0, 0, 3, 0, 6, 0, 36,
                          255, 255, 255, 255, 0, 0, 0, 2 >>

(* ------------------------------------------------------------------ *)
(* C10                                                                *)
(* ------------------------------------------------------------------ *)
\* C10: when the transport write of the request frame fails, the dispatcher
\* returns FLR_COMM_ERROR_WRITING_COMM, writes nothing more and reads no
\* response frame.
C10_WriteFailureIsFatal ==
    (Len(wire) >= 1 /\ ~wire[1].ok) =>
        /\ Len(wire) = 1
        /\ frames = << >>
        /\ pc = "done"
        /\ ret = U(FLR_COMM_ERROR_WRITING_COMM)

C10_Witness ==
    /\ Returned /\ Len(wire) = 1 /\ ~wire[1].ok
    /\ ret = U(FLR_COMM_ERROR_WRITING_COMM)

(* ------------------------------------------------------------------ *)
(* C11                                                                *)
(* ------------------------------------------------------------------ *)
\* C11: flir_fslp_send_frame returns -EINVAL and writes nothing to the
\* transport for every payload longer than 256 bytes; for every payload of 0
\* to 256 bytes it makes exactly one transport write, of 4 + len bytes.
C11_SendFrameLengthGate ==
    fpc = "sent" =>
        IF Len(frame_in) > 256
        THEN frame_ret = -EINVAL /\ frame_wire = << >>
        ELSE /\ Len(frame_wire) = 1
             /\ Len(frame_wire[1].bytes) = 4 + Len(frame_in)
             /\ frame_ret = (IF frame_wire[1].ok THEN 0 ELSE -EIO)

C11_Witness ==
    /\ fpc = "sent" /\ Len(frame_in) = 257
    /\ frame_ret = -EINVAL /\ frame_wire = << >>

(* ------------------------------------------------------------------ *)
(* C12                                                                *)
(* ------------------------------------------------------------------ *)
\* the 12-byte header and the request body exceed the frame payload limit
RequestTooLarge == pc # "idle" /\ 12 + Len(send_data) > 256

\* C12: a dispatch whose header plus body exceeds the 256-byte frame payload
\* limit is refused before any transport I/O and before any byte of the body
\* is copied: the flush read is never completed (the send step is not
\* reached, no read error is returned), nothing is written, no response is
\* read, and the request buffer is not overrun.
C12_TooLargeRejectedBeforeIO ==
    RequestTooLarge =>
        /\ pc \notin { "send", "read" }
        /\ wire = << >> /\ frames = << >>
        /\ ~overflow
        /\ Returned => ret # U(FLR_COMM_ERROR_READING_COMM)

(* ------------------------------------------------------------------ *)
(* C13                                                                *)
(* ------------------------------------------------------------------ *)
\* C13: for every payload p of at most 256 bytes, flir_fslp_read_frame with
\* expected_len = len(p), reading the bytes flir_fslp_send_frame(p) wrote,
\* succeeds, takes len(p) payload bytes without a length mismatch, and leaves
\* exactly p in the payload buffer.
C13_FrameRoundTrip ==
    (fpc = "looped" /\ Len(frame_in) <= 256) =>
        /\ frame_read.ret = 0
        /\ frame_read.stored = Len(frame_in)
        /\ ~frame_read.warned
        /\ ~frame_read.past
        /\ SubSeq(frame_buf, 1, Len(frame_in)) = frame_in
        /\ \A i \in (Len(frame_in) + 1)..Len(frame_buf) : frame_buf[i] = 0

C13_Witness ==
    /\ fpc = "looped" /\ Len(frame_in) = 256
    /\ frame_read.ret = 0 /\ frame_buf = frame_in

(* ------------------------------------------------------------------ *)
(* C14                                                                *)
(* ------------------------------------------------------------------ *)
\* byte k (0 the most significant) of the u32 v
ByteOf(v, k) ==
    CASE k = 0 -> v[1] \div 256
      [] k = 1 -> v[1] % 256
      [] k = 2 -> v[2] \div 256
      [] OTHER -> v[2] % 256

\* C14: for every (sequence, function id, status) of 32-bit values, the three
\* UINT32_ToBytes write 12 bytes, each value most significant byte first, and
\* byteToUINT32 at offsets 0, 4 and 8 of these bytes gives the triple back.
C14_HeaderRoundTrip ==
    fpc = "header" =>
        /\ Len(hdr_bytes) = 12
        /\ \A j \in 0..2, k \in 0..3 :
              hdr_bytes[4 * j + k + 1] = ByteOf(hdr_in[j + 1], k)
        /\ hdr_out = hdr_in

C14_Witness ==
    /\ fpc = "header"
    /\ hdr_in = << << 258, 772 >>, << 32768, 0 >>, << 65535, 65535 >> >>
    /\ hdr_bytes = << 1, 2, 3, 4, 128, 0, 0, 0, 255, 255, 255, 255 >>
    /\ hdr_out = hdr_in

(* ------------------------------------------------------------------ *)
(* C15                                                                *)
(* ------------------------------------------------------------------ *)
\* both header bytes were read and they are not 8E A1
BadMagic(f) ==
    /\ f.t.r0 /\ f.t.r1
    /\ (f.t.h0 # 142 \/ f.t.h1 # 161)

\* C15: whenever the first two bytes flir_fslp_read_frame reads are not
\* 8E A1 it returns a non-zero error, and the dispatcher parses no header
\* field after such a frame.
C15_BadMagicIsHardError ==
    \A i \in 1..Len(frames) :
        BadMagic(Frame(i)) => Frame(i).ret # 0 /\ Frame(i).parsed = 0

(* ------------------------------------------------------------------ *)
(* C16                                                                *)
(* ------------------------------------------------------------------ *)
\* one of the transport reads flir_fslp_read_frame made for the frame failed:
\* the first or the second header byte, the length bytes (read once the
\* second byte was accepted), the payload (read once a length above 0 was)
FailedRead(f) ==
    \/ ~f.t.r0
    \/ ~f.t.r1
    \/ (f.t.r1 /\ f.t.h1 = 161 /\ ~f.t.r2)
    \/ (f.t.r1 /\ f.t.h1 = 161 /\ f.t.r2 /\ f.t.len > 0 /\ ~f.t.r3)

\* C16: flir_fslp_read_frame returns a non-zero error whenever one of its
\* transport reads fails, also when a later read succeeds.
C16_FailedReadNeverMasked ==
    \A i \in 1..Len(frames) : FailedRead(Frame(i)) => Frame(i).ret # 0

(* ------------------------------------------------------------------ *)
(* C17                                                                *)
(* ------------------------------------------------------------------ *)
\* C17: once flir_fslp_read_frame has read the length bytes, a declared
\* length other than expected_len is logged and nothing more: the function
\* asks the transport for exactly the declared number of payload bytes (for
\* none when it is 0) and, that read succeeding, returns 0.
C17_DeclaredLengthAuthoritative ==
    \A i \in 1..Len(frames) :
        (Framed(Frame(i)) /\ (Frame(i).t.len = 0 \/ Frame(i).t.r3)) =>
            /\ Frame(i).ret = 0
            /\ Frame(i).stored = Frame(i).t.len
            /\ Frame(i).warned = (Frame(i).t.len # receive_bytes + 12)

C17_Witness ==
    /\ Len(frames) = 2
    /\ receive_bytes = 4
    /\ Framed(Frame(1)) /\ Frame(1).t.len = 0
    /\ Frame(1).warned /\ Frame(1).stored = 0 /\ Frame(1).ret = 0
    /\ Framed(Frame(2)) /\ Frame(2).t.len = 12
    /\ Frame(2).warned /\ Frame(2).stored = 12 /\ Frame(2).ret = 0

(* ------------------------------------------------------------------ *)
(* C18                                                                *)
(* ------------------------------------------------------------------ *)
\* C18: whatever length a response frame declares, the receive path stores
\* no more payload bytes than response_payload holds (256); a frame that
\* declares more is rejected with an error instead of being stored.
C18_StoredWithinCapacity ==
    \A i \in 1..Len(frames) :
        /\ Frame(i).stored <= 256
        /\ (Framed(Frame(i)) /\ Frame(i).t.len > 256) => Frame(i).ret # 0

(* ------------------------------------------------------------------ *)
(* C19                                                                *)
(* ------------------------------------------------------------------ *)
\* C19: every dispatch that has started comes to its end, returning a result,
\* whatever the camera answers, provided every transport operation returns.
C19_DispatchTerminates == (pc = "flush") ~> (pc = "done")

(* ------------------------------------------------------------------ *)
(* C20                                                                *)
(* ------------------------------------------------------------------ *)
\* C20: flir_boson_get_int_val sends a request with an empty body (a frame
\* payload of 12 bytes), expects 4 data bytes, and returns R_SUCCESS only
\* when the last response frame brought 4 data bytes after its 12-byte
\* header; *val is then the big-endian u32 of these 4 bytes.
C20_GetIntValDecodesReceivedData ==
    op = "get_int_val" =>
        /\ send_data = << >> /\ receive_bytes = 4
        /\ \A k \in 1..Len(wire) :
              /\ Len(wire[k].bytes) = 4 + 12
              /\ wire[k].bytes[3] = 0 /\ wire[k].bytes[4] = 12
        /\ (Returned /\ ret = U(R_SUCCESS)) =>
              /\ frames # << >>
              /\ Delivered(LastFrame) >= 12 + 4
              /\ out = << LastFrame.t.data >>

(* ------------------------------------------------------------------ *)
(* C21                                                                *)
(* ------------------------------------------------------------------ *)
\* the big-endian u32 held by bytes k..k+3 (counted from 0) of d
WordAt(d, k) == << d[k + 1] * 256 + d[k + 2], d[k + 3] * 256 + d[k + 4] >>

\* C21: flir_boson_set_dvo_muxtype sends a 12-byte body, output, source and
\* type as big-endian u32 in this order, and expects no data;
\* flir_boson_get_dvo_muxtype sends a 4-byte body, output as big-endian u32,
\* expects 8 data bytes, and when it returns R_SUCCESS it has stored source
\* from data bytes 0..3 and type from data bytes 4..7 of the data handed back
\* by the dispatcher, both big-endian.
C21_MuxTypeBodyLayout ==
    /\ op = "set_dvo_muxtype" =>
          /\ Len(send_data) = 12
          /\ send_data = BigEndian(args[1]) \o BigEndian(args[2]) \o BigEndian(args[3])
          /\ receive_bytes = 0
          /\ \A k \in 1..Len(wire) : Len(wire[k].bytes) = 4 + 12 + 12
    /\ op = "get_dvo_muxtype" =>
          /\ Len(send_data) = 4
          /\ send_data = BigEndian(args[1])
          /\ receive_bytes = 8
          /\ (Returned /\ result = U(R_SUCCESS)) =>
                /\ Len(receive_data) = 8
                /\ out = << WordAt(receive_data, 0), WordAt(receive_data, 4) >>
                /\ Delivered(LastFrame) >= 12 + 8 =>
                      out = << LastFrame.t.data, Second(LastFrame.t.data) >>
          /\ (Returned /\ result # U(R_SUCCESS)) => out = << >>

\* both packagers have returned success at least once with source and type
\* that differ: a set call with (0, 1, 3) on the wire, a get call that
\* decoded two different words
C21_Witness ==
    /\ op = "get_dvo_muxtype" /\ Returned /\ result = U(R_SUCCESS)
    /\ Len(out) = 2 /\ out[1] # out[2]
    /\ Delivered(LastFrame) >= 12 + 8

(* ------------------------------------------------------------------ *)
(* C22                                                                *)
(* ------------------------------------------------------------------ *)
\* C22: a packager call enters the dispatcher once: from the call on, the
\* dispatcher runs to its return, and once it has returned the only step left
\* is the packager's own return (or the crash of a damaged stack), never a
\* second dispatch; the code the packager returns is the dispatcher's code,
\* whatever it is.
C22_OneDispatchResultPassedThrough ==
    /\ [](Returned => result = ret)
    /\ [][/\ pc = "idle" => pc' \in { "idle", "flush" }
          /\ pc = "done" => /\ pc' \in { "done", "idle", "crashed" }
                            /\ calls' = calls
                            /\ command_count' = command_count]_vars

\* a mux packager has returned a failure that is neither of the transport
\* codes, after one request was written
C22_Witness ==
    /\ Returned /\ op = "set_dvo_muxtype"
    /\ result \notin { U(R_SUCCESS), U(FLR_COMM_ERROR_READING_COMM),
                       U(FLR_COMM_ERROR_WRITING_COMM) }
    /\ Len(wire) = 1

(* ------------------------------------------------------------------ *)
(* The V4L2 core: what a call of an operation has done                *)
(* ------------------------------------------------------------------ *)
\* the threads with a command in flight: the request has left, the result
\* has not come back
InFlight == { t \in Threads : th[t].cmd # NoCmd }

\* thread t stands at the label unlock of operation fn, the value it is
\* about to return being ReturnOf(fn, th[t].ret)
AtUnlock(t, fn) == th[t].fn = fn /\ th[t].pc = "unlock"

(* ------------------------------------------------------------------ *)
(* C23                                                                *)
(* ------------------------------------------------------------------ *)
\* C23: a thread has a command in flight only while it holds sensor->lock,
\* so at most one command is in flight on the device at any time; this
\* holds for s_power, s_stream, set_fmt and for the commands flir_boson_probe
\* sends once the subdevice is registered.
C23_DispatchOnlyUnderLock ==
    /\ \A t \in InFlight : lock = t
    /\ Cardinality(InFlight) <= 1

(* ------------------------------------------------------------------ *)
(* C24                                                                *)
(* ------------------------------------------------------------------ *)
\* C24: while a call of flir_boson_s_stream_priv holds the lock, streaming
\* is true where it was false at the start of the call only if the
\* SET_MIPI_STATE(ACTIVE) of this call returned R_SUCCESS, and false where
\* it was true only if the SET_MIPI_STATE(OFF) of this call returned
\* R_SUCCESS.
C24_StreamingFollowsSuccess ==
    \A t \in Callers :
        (lock = t /\ th[t].fn = "s_stream") =>
            /\ (sensor.streaming /\ ~th[t].at_lock.streaming)
                  => FLIR_MIPI_STATE_ACTIVE \in th[t].mipi_ok
            /\ (~sensor.streaming /\ th[t].at_lock.streaming)
                  => FLIR_MIPI_STATE_OFF \in th[t].mipi_ok

\* a call s_stream(0) has stopped a stream that an earlier s_stream(1)
\* started
C24_Witness ==
    \E t \in Callers :
        /\ lock = t /\ th[t].fn = "s_stream" /\ ~th[t].arg.enable
        /\ th[t].at_lock.streaming /\ ~sensor.streaming

(* ------------------------------------------------------------------ *)
(* C25                                                                *)
(* ------------------------------------------------------------------ *)
\* thread t's SET_MIPI_STATE(v) returns r in this step
SetMipiStateReturns(t, v, r) ==
    /\ th[t].cmd = Cmd("DVO_SETMIPISTATE", v)
    /\ th'[t].cmd = NoCmd
    /\ th'[t].last = r

\* C25: sensor->mipi_state changes only in a step in which a
\* SET_MIPI_STATE for the new value returns R_SUCCESS; when a SET_MIPI_STATE
\* of flir_boson_probe, flir_boson_s_power or flir_boson_s_stream_priv
\* returns R_SUCCESS the recorded state is the requested one, and when it
\* fails the recorded state is left as it was.
C25_MipiStateFollowsSetCommands ==
    [][/\ sensor'.mipi_state # sensor.mipi_state =>
             \E t \in Threads :
                 SetMipiStateReturns(t, sensor'.mipi_state, R_SUCCESS)
       /\ \A t \in Threads, v \in MipiStates :
             /\ (th[t].fn \in { "probe", "s_power", "s_stream" }
                   /\ SetMipiStateReturns(t, v, R_SUCCESS))
                   => sensor'.mipi_state = v
             /\ (\E r \in DispatchResults \ { R_SUCCESS } : SetMipiStateReturns(t, v, r))
                   => sensor'.mipi_state = sensor.mipi_state]_vars

(* ------------------------------------------------------------------ *)
(* C26                                                                *)
(* ------------------------------------------------------------------ *)
\* C26: a call of flir_boson_set_fmt with an ACTIVE format that finds
\* streaming true goes straight to its return: it dispatches no command,
\* it returns -EBUSY, and sensor->fmt, current_format and current_framesize
\* are what they were.
C26_SetFmtWhileStreamingIsBusy ==
    \A t \in Callers :
        (lock = t /\ th[t].fn = "set_fmt" /\ th[t].at_lock.streaming) =>
            /\ th[t].pc = "unlock"
            /\ th[t].cmd = NoCmd /\ th[t].first = NoCmd
            /\ ReturnOf("set_fmt", th[t].ret) = 0 - EBUSY
            /\ sensor.fmt = th[t].at_lock.fmt
            /\ sensor.current_format = th[t].at_lock.current_format
            /\ sensor.current_framesize = th[t].at_lock.current_framesize

\* set_fmt asks for 640x514 Y16 while the device streams its 640x512 UYVY
C26_Witness ==
    \E t \in Callers :
        /\ AtUnlock(t, "set_fmt") /\ th[t].at_lock.streaming
        /\ th[t].arg.which = "ACTIVE" /\ th[t].arg.code = "Y16_1X16"
        /\ FmtOf(NewFormat(th[t].arg), NewFramesize(th[t].arg)) # sensor.fmt

(* ------------------------------------------------------------------ *)
(* C27                                                                *)
(* ------------------------------------------------------------------ *)
\* C27: in a call of flir_boson_set_fmt the first command dispatched is
\* SET_MIPI_STATE(OFF); any other command is dispatched only after that
\* first command returned R_SUCCESS; the only MIPI state the call ever
\* commands is OFF (never ACTIVE, never PAUSED); and where the call is
\* about to return 0, streaming is false.
C27_SetFmtForcesMipiOff ==
    \A t \in Callers :
        th[t].fn = "set_fmt" =>
            /\ th[t].first \in { NoCmd, Cmd("DVO_SETMIPISTATE", FLIR_MIPI_STATE_OFF) }
            /\ th[t].cmd.id = "DVO_SETMIPISTATE" => th[t].cmd.val = FLIR_MIPI_STATE_OFF
            /\ th[t].mipi_ok \subseteq { FLIR_MIPI_STATE_OFF }
            /\ (th[t].pc \in (FormatSites \cup AgcSites) \ { "sf_off" })
                  => FLIR_MIPI_STATE_OFF \in th[t].mipi_ok
            /\ (th[t].cmd # NoCmd /\ th[t].cmd # th[t].first)
                  => FLIR_MIPI_STATE_OFF \in th[t].mipi_ok
            /\ (th[t].pc = "unlock" /\ ReturnOf("set_fmt", th[t].ret) = 0)
                  => ~sensor.streaming

\* a set_fmt that changed the format is about to return 0
C27_Witness ==
    \E t \in Callers :
        /\ AtUnlock(t, "set_fmt") /\ ReturnOf("set_fmt", th[t].ret) = 0
        /\ th[t].first = Cmd("DVO_SETMIPISTATE", FLIR_MIPI_STATE_OFF)
        /\ sensor.fmt # th[t].at_lock.fmt
        /\ ~sensor.streaming

(* ------------------------------------------------------------------ *)
(* C28                                                                *)
(* ------------------------------------------------------------------ *)
\* C28: whenever a thread has SET_MIPI_STATE(ACTIVE) in flight, the device
\* is powered and the output interface, the DVO type, the output format and
\* the mux routing have each been configured with success.
C28_ActiveOnlyWhenConfigured ==
    \A t \in Threads :
        th[t].cmd = Cmd("DVO_SETMIPISTATE", FLIR_MIPI_STATE_ACTIVE) =>
            /\ sensor.powered
            /\ configured = { "interface", "type", "format", "mux" }

(* ------------------------------------------------------------------ *)
(* C29                                                                *)
(* ------------------------------------------------------------------ *)
\* C29: once a command dispatched by a call of flir_boson_set_fmt has
\* failed, the call dispatches nothing more and stands at its return, the
\* value it returns is not 0, and sensor->fmt, current_format and
\* current_framesize are what they were when the call took the lock.
C29_SetFmtAbortsOnAnyFailure ==
    \A t \in Callers :
        (th[t].fn = "set_fmt" /\ th[t].failed # "none") =>
            /\ th[t].pc = "unlock" /\ th[t].cmd = NoCmd
            /\ ReturnOf("set_fmt", th[t].ret) # 0
            /\ sensor.fmt = th[t].at_lock.fmt
            /\ sensor.current_format = th[t].at_lock.current_format
            /\ sensor.current_framesize = th[t].at_lock.current_framesize

(* ------------------------------------------------------------------ *)
(* C30                                                                *)
(* ------------------------------------------------------------------ *)
\* C30: when a call of flir_boson_s_stream_priv, or of flir_boson_s_power
\* with on = 1, stands at its return with a value that is not 0, the
\* streaming and powered flags are what they were when the call took the
\* lock.
C30_FailedCallLeavesFlags ==
    \A t \in Callers :
        ( /\ \/ AtUnlock(t, "s_stream")
             \/ AtUnlock(t, "s_power") /\ th[t].arg.on
          /\ ReturnOf(th[t].fn, th[t].ret) # 0 ) =>
            /\ sensor.streaming = th[t].at_lock.streaming
            /\ sensor.powered = th[t].at_lock.powered

(* ------------------------------------------------------------------ *)
(* C31                                                                *)
(* ------------------------------------------------------------------ *)
\* a call flir_boson_s_power(sd, 0) of thread t that found the sensor
\* powered and streaming when it took the lock
PowerOffWhileStreaming(t) ==
    /\ th[t].fn = "s_power" /\ ~th[t].arg.on
    /\ th[t].pc \in { "pd_off", "unlock" }
    /\ th[t].at_lock.powered /\ th[t].at_lock.streaming

\* C31: a power-off call on a powered, streaming sensor dispatches
\* SET_MIPI_STATE(OFF) and nothing else, and dispatches it once; when the
\* command has returned, with whatever result, the call stands at its
\* unlock with the streaming flag cleared, and its next step releases the
\* lock and returns.
C31_TeardownIsBestEffort ==
    /\ [](\A t \in Callers :
            (PowerOffWhileStreaming(t) /\ th[t].pc = "unlock") =>
                /\ th[t].first = Cmd("DVO_SETMIPISTATE", FLIR_MIPI_STATE_OFF)
                /\ th[t].cmd = NoCmd
                /\ ~sensor.streaming
                /\ lock = t)
    /\ [][\A t \in Callers :
            PowerOffWhileStreaming(t) =>
                /\ (th[t].cmd = NoCmd /\ th'[t].cmd # NoCmd) =>
                      /\ th[t].first = NoCmd
                      /\ th'[t].cmd = Cmd("DVO_SETMIPISTATE", FLIR_MIPI_STATE_OFF)
                /\ (th[t].cmd # NoCmd /\ th'[t].cmd = NoCmd) =>
                      /\ th'[t].pc = "unlock"
                      /\ ~sensor'.streaming
                /\ (th[t].pc = "unlock" /\ th'[t] # th[t]) =>
                      /\ th'[t].pc = "idle"
                      /\ lock' = "free"]_vars

\* the SET_MIPI_STATE(OFF) of a power-off failed and the call stands at its
\* unlock with streaming cleared
C31_Witness ==
    \E t \in Callers :
        /\ PowerOffWhileStreaming(t) /\ th[t].pc = "unlock"
        /\ th[t].last # R_SUCCESS
        /\ ~sensor.streaming

(* ------------------------------------------------------------------ *)
(* C32                                                                *)
(* ------------------------------------------------------------------ *)
\* the errno the mapping is to give for a result code
ErrnoFor(code) ==
    IF code = R_SUCCESS THEN 0
    ELSE IF code \in { FLR_BAD_ARG_POINTER_ERROR, R_CAM_API_INVALID_INPUT } THEN 0 - EINVAL
    ELSE IF code \in { FLR_COMM_TIMEOUT_ERROR, FLR_COMM_ERROR_WRITING_COMM,
                       FLR_COMM_ERROR_READING_COMM } THEN 0 - EIO
    ELSE IF code \in { FLR_NOT_READY, FLR_CAM_BUSY } THEN 0 - EBUSY
    ELSE IF code \in { FLR_RANGE_ERROR, FLR_DATA_SIZE_ERROR } THEN 0 - ERANGE
    ELSE IF code \in { R_SDK_PKG_BUFFER_OVERFLOW, R_CAM_PKG_BUFFER_OVERFLOW } THEN 0 - ENOSPC
    ELSE IF code \in { FLR_COMM_PORT_NOT_OPEN, FLR_COMM_NO_DEV } THEN 0 - ENODEV
    ELSE IF code \in { R_SDK_DSPCH_SEQUENCE_MISMATCH, R_SDK_DSPCH_ID_MISMATCH } THEN 0 - EPROTO
    ELSE 0 - EREMOTEIO

\* C32: flr_result_to_errno and boson_result_to_errno give a value for every
\* result code; the value is 0 exactly when the code is R_SUCCESS and negative
\* otherwise, and it is -EINVAL, -EIO, -EBUSY, -ERANGE, -ENOSPC, -ENODEV or
\* -EPROTO for the codes of the corresponding kind and -EREMOTEIO for every
\* other code.
C32_ErrnoMappingIsTotal ==
    conv.done =>
        /\ conv.v4l2 = ErrnoFor(conv.code)
        /\ conv.vvcam = ErrnoFor(conv.code)
        /\ (conv.v4l2 = 0) = (conv.code = R_SUCCESS)
        /\ (conv.vvcam = 0) = (conv.code = R_SUCCESS)
        /\ conv.code # R_SUCCESS => (conv.v4l2 < 0 /\ conv.vvcam < 0)

\* a camera-busy code was converted to -EBUSY
C32_Witness ==
    conv.done /\ conv.code = FLR_CAM_BUSY /\ conv.v4l2 = 0 - EBUSY /\ conv.vvcam = 0 - EBUSY

(* ------------------------------------------------------------------ *)
(* C33                                                                *)
(* ------------------------------------------------------------------ *)
\* the commands of the power-on sequence and of the start sequence
PowerOnCommands ==
    { "DVO_SETMIPISTATE", "DVO_SETTYPE", "DVO_SETOUTPUTFORMAT", "DVO_SETOUTPUTINTERFACE" }
StartCommands == { "DVO_SETMIPICLOCKLANEMODE", "DVO_SETMIPISTATE" }

\* C33: when a command of the power-on sequence of flir_boson_s_power has
\* failed with result R, the call returns flr_result_to_errno(R); when a
\* command of the start sequence of flir_boson_s_stream_priv has failed, the
\* call returns flr_result_to_errno of the result of one of the commands
\* that failed.
C33_ReturnIsErrnoOfFailedCommand ==
    \A t \in Callers :
        /\ ( /\ AtUnlock(t, "s_power") /\ th[t].arg.on
             /\ th[t].failed \in PowerOnCommands ) =>
                ReturnOf("s_power", th[t].ret) = flr_result_to_errno(th[t].last)
        /\ ( /\ AtUnlock(t, "s_stream") /\ th[t].arg.enable
             /\ th[t].failed \in StartCommands ) =>
                \E r \in th[t].fails :
                    ReturnOf("s_stream", th[t].ret) = flr_result_to_errno(r)

(* ------------------------------------------------------------------ *)
(* C34                                                                *)
(* ------------------------------------------------------------------ *)
\* C34: the number of bytes a call of CLIENT_dispatcher has copied into
\* receiveData is never more than the *receiveBytes its caller passed.
C34_CopyBoundedByExpected ==
    cd.copied <= cd.expected

(* ------------------------------------------------------------------ *)
(* C35                                                                *)
(* ------------------------------------------------------------------ *)
\* a call of CLIENT_dispatcher has ended after a whole response header
\* reached it
AnsweredCall == cd.pc = "done" /\ cd.frame.len >= 12

\* C35: a call of CLIENT_dispatcher that received a response whose sequence
\* is not the one sent returns R_SDK_DSPCH_SEQUENCE_MISMATCH, and one whose
\* sequence matches and whose function id does not returns
\* R_SDK_DSPCH_ID_MISMATCH, whatever status the response carries.
C35_CorrelationBeforeStatus ==
    AnsweredCall =>
        /\ cd.frame.seq # cd.seqNum => cd.res = R_SDK_DSPCH_SEQUENCE_MISMATCH
        /\ (cd.frame.seq = cd.seqNum /\ cd.frame.fn # cd.fnID)
              => cd.res = R_SDK_DSPCH_ID_MISMATCH

(* ------------------------------------------------------------------ *)
(* C36                                                                *)
(* ------------------------------------------------------------------ *)
\* a call flir_boson_s_power(sd, 1) of thread t in its power-on branch
PowerOn(t) ==
    /\ th[t].fn = "s_power" /\ th[t].arg.on
    /\ th[t].pc \in { "pw_off", "pw_type", "pw_format", "pw_iface" }

\* the command that may follow the command p in the power-on sequence
PowerOnOrder ==
    { << "none", Cmd("DVO_SETMIPISTATE", FLIR_MIPI_STATE_OFF) >> }
    \cup { << "DVO_SETMIPISTATE", Cmd("DVO_SETTYPE", ty) >> :
              ty \in { "COLOR", "MONO14", "MONO8" } }
    \cup { << "DVO_SETTYPE", Cmd("DVO_SETOUTPUTFORMAT", f) >> : f \in { "YCBCR", "IR16" } }
    \cup { << "DVO_SETOUTPUTFORMAT", Cmd("DVO_SETOUTPUTINTERFACE", "MIPI") >> }

\* C36: the power-on branch of flir_boson_s_power dispatches
\* SET_MIPI_STATE(OFF), SET_TYPE, SET_OUTPUT_FORMAT and
\* SET_OUTPUT_INTERFACE(MIPI) in that order, dispatches a command only while
\* no command of the call has failed, and the powered flag goes from false
\* to true only in the step in which the fourth command returns success
\* after the three before it succeeded.
C36_PowerOnSequence ==
    [][ /\ \A t \in Callers :
             (PowerOn(t) /\ th[t].cmd = NoCmd /\ th'[t].cmd # NoCmd) =>
                 /\ << th[t].prev, th'[t].cmd >> \in PowerOnOrder
                 /\ th[t].failed = "none"
        /\ (~sensor.powered /\ sensor'.powered) =>
             \E t \in Callers :
                 /\ PowerOn(t) /\ th[t].cmd.id = "DVO_SETOUTPUTINTERFACE"
                 /\ th[t].first = Cmd("DVO_SETMIPISTATE", FLIR_MIPI_STATE_OFF)
                 /\ th'[t].failed = "none"
                 /\ th'[t].last = R_SUCCESS ]_vars

\* the second command of a power-on failed: the call stands at its unlock,
\* powered still false
C36_Witness ==
    \E t \in Callers :
        /\ AtUnlock(t, "s_power") /\ th[t].arg.on
        /\ th[t].failed = "DVO_SETTYPE"
        /\ th[t].prev = "DVO_SETTYPE"
        /\ ~sensor.powered

(* ------------------------------------------------------------------ *)
(* C37                                                                *)
(* ------------------------------------------------------------------ *)
\* a call of flir_boson_s_stream_priv of thread t that asks for the state
\* the sensor was in when the call took the lock
StreamRequestMatches(t) ==
    /\ th[t].fn = "s_stream" /\ th[t].pc # "lock"
    /\ th[t].arg.enable = th[t].at_lock.streaming

\* C37: a call of flir_boson_s_stream_priv whose request matches the
\* streaming flag goes from the lock straight to its unlock, dispatches no
\* command (so command_count, which only a packager increments, is left
\* alone), none of its steps changes streaming, mipi_state or any other
\* field of the sensor, and it returns 0.
C37_StreamNoOp ==
    /\ [](\A t \in Callers :
            StreamRequestMatches(t) =>
                /\ th[t].pc = "unlock"
                /\ th[t].first = NoCmd /\ th[t].cmd = NoCmd
                /\ ReturnOf("s_stream", th[t].ret) = 0)
    /\ [][\A t \in Callers :
            /\ ( /\ th[t].fn = "s_stream" /\ th[t].pc = "lock"
                 /\ th'[t] # th[t]
                 /\ th[t].arg.enable = sensor.streaming ) =>
                    (th'[t].pc = "unlock" /\ sensor' = sensor)
            /\ (StreamRequestMatches(t) /\ th'[t] # th[t]) =>
                    (th'[t].pc = "idle" /\ sensor' = sensor)]_vars

\* s_stream(1) found the sensor streaming and stands at its unlock
C37_Witness ==
    \E t \in Callers :
        /\ StreamRequestMatches(t) /\ th[t].pc = "unlock"
        /\ th[t].arg.enable /\ sensor.streaming

(* ------------------------------------------------------------------ *)
(* C38                                                                *)
(* ------------------------------------------------------------------ *)
\* C38: no thread of the legacy core stands at a mutex_lock(&sensor->lock)
\* while it is itself the holder of sensor->lock (from such a state the call
\* of flir_boson_ioctl can neither release the lock nor return).
C38_NoWaitOnOwnLock ==
    \A t \in LegacyThreads :
        lg.th[t].pc \in LegacyLockSites => lg.lock # t

(* ------------------------------------------------------------------ *)
(* C39                                                                *)
(* ------------------------------------------------------------------ *)
\* C39: whenever no call of the VVCAM core holds sensor->lock and the
\* camera has acknowledged a SET_MIPI_STATE, sensor->mipi_state is the state
\* of the last SET_MIPI_STATE it acknowledged.
C39_MipiStateIsLastAcknowledged ==
    (vv.lock = "free" /\ vv.acked # NoAck) => vv.mipi_state = vv.acked

(* ------------------------------------------------------------------ *)
(* C40                                                                *)
(* ------------------------------------------------------------------ *)
\* a power-off request that found the device powered has run to its unlock
PowerOffOfPowered(t) ==
    /\ AtUnlock(t, "s_power") /\ ~th[t].arg.on
    /\ th[t].at_lock.powered

\* C40: power state follows the requests: when flir_boson_s_power(sd, 0)
\* has run on a powered device, the powered flag is false, so that a later
\* flir_boson_s_power(sd, 1) sends the MIPI initialisation sequence again.
C40_PowerOffClearsPowered ==
    \A t \in Callers : PowerOffOfPowered(t) => ~sensor.powered

====
